---- MODULE Spec2Model ----
(***************************************************************************)
(* Model of the Worker AI API: the timeout guard (utils/timeout.ts), the   *)
(* model invoker runAiModel (services/ai-service), the error taxonomy      *)
(* (utils/ai-errors), the API-key middleware, the model-run route         *)
(* (routes/ai.ts) and the person-detection routes (routes/vision.ts and    *)
(* its vision-language variant).  One request is followed step by step;    *)
(* a second one, interleaved with it between event-loop tasks, shares the  *)
(* clock and the AI binding with it.                                       *)
(*                                                                         *)
(* JavaScript values are tagged records.  Numbers that stand for scores,   *)
(* thresholds, ratios and box coordinates are counted in hundredths        *)
(* (0.7 is 70); a product of two of them is counted in ten-thousandths.    *)
(* Times are counted in milliseconds.                                      *)
(***************************************************************************)
EXTENDS Integers, Sequences, FiniteSets, TLC

(***************************************************************************)
(* JavaScript values                                                       *)
(***************************************************************************)
Undefined == [t |-> "undefined"]
Null == [t |-> "null"]
NaN == [t |-> "NaN"]
Infinity == [t |-> "Infinity"]
Num(n) == [t |-> "number", n |-> n]
Str(s) == [t |-> "string", s |-> s]
Bool(b) == [t |-> "boolean", b |-> b]
Arr(items) == [t |-> "array", items |-> items]
Obj(f) == [t |-> "object", f |-> f]

\* typeof v
TypeOf(v) ==
  CASE v.t \in {"number", "NaN", "Infinity"} -> "number"
    [] v.t \in {"null", "array", "object"} -> "object"
    [] OTHER -> v.t

\* Number.isFinite(v): false for every non-number, for NaN and for Infinity
NumberIsFinite(v) == v.t = "number"

\* a string given as its JSON tokens and stretches of other text
Text(toks) == [t |-> "string", toks |-> toks]

\* a string given character by character
Chars(cs) == [t |-> "string", chars |-> cs]

\* the truthiness `!v` and `a || b` test
Truthy(v) ==
  CASE v.t \in {"undefined", "null", "NaN"} -> FALSE
    [] v.t = "number" -> v.n # 0
    [] v.t = "string" -> IF "s" \in DOMAIN v THEN v.s # ""
                         ELSE IF "chars" \in DOMAIN v THEN v.chars # <<>>
                         ELSE IF "toks" \in DOMAIN v THEN v.toks # <<>>
                         ELSE TRUE
    [] v.t = "boolean" -> v.b
    [] OTHER -> TRUE

\* record[key] on an object or array value (an array has no named keys here)
Get(v, key) ==
  IF v.t = "object" /\ key \in DOMAIN v.f THEN v.f[key] ELSE Undefined

\* a ?? b
Coalesce(a, b) == IF a.t \in {"undefined", "null"} THEN b ELSE a

(***************************************************************************)
(* Promises, errors                                                        *)
(***************************************************************************)
NoPromise == [kind |-> "none"]
Pending == [kind |-> "pending"]
Fulfilled(v) == [kind |-> "value", v |-> v]
Rejected(e) == [kind |-> "error", e |-> e]

\* new TimeoutError(timeoutMs)
TimeoutError(timeoutMs) == [cls |-> "TimeoutError", timeoutMs |-> timeoutMs]

DEFAULT_AI_TIMEOUT_MS == 60000

\* new AiRunError({code, message, status, traceId, durationMs, raw, cause})
AiRunError(code, message, status, traceId, durationMs, raw, cause) ==
  [cls |-> "AiRunError", code |-> code, message |-> message, status |-> status,
   traceId |-> traceId, durationMs |-> durationMs, raw |-> raw, cause |-> cause]

NoCause == [cls |-> "none"]

(***************************************************************************)
(* State                                                                   *)
(***************************************************************************)
VARIABLES
  now,          \* Date.now(), in ms
  pc,           \* where the program is: "idle", "guarded", "running", ...
  promise,      \* the guarded operation (the promise ai.run returned)
  settledAt,    \* when the operation settled, -1 before
  timeoutId,    \* the timer of withTimeout: [st, deadline, ms]
  timersArmed,  \* how many times withTimeout called setTimeout
  guarded,      \* the promise withTimeout returned
  settlements,  \* the outcomes the awaiting caller was resumed with, in order
  run,          \* runAiModel's frame: [startedAt, asked, timeoutMs, gateway, traceId,
                \* thrown, out]
  runCalls,     \* how many times ai.run was called
  logs,         \* the console records written, in order
  fnIn,         \* the arguments of the pure function under check
  fnOut,        \* its result: [done, v]
  req,          \* the HTTP request being served: [route, mode, traceId, ...]
  fetch,        \* fetchImageBuffer's frame: [st, timer, deadline, calls, response]
  image,        \* the image received: [buffer, contentType, codec]
  modelInput,   \* the images handed to runAiModel, in order: [bytes, contentType]
  response,     \* the HTTP responses sent, in order: [status, body]
  aiGatewayLogId, \* env.AI.aiGatewayLogId: a property of the binding all requests share
  parked        \* the frame of a second request, while it is not the one running

timeoutVars == <<promise, settledAt, timeoutId, timersArmed, guarded, settlements>>
runVars == <<run, runCalls, logs>>
fnVars == <<fnIn, fnOut>>
reqVars == <<req, fetch, image, modelInput, response>>
vars == <<now, pc, promise, settledAt, timeoutId, timersArmed, guarded,
          settlements, run, runCalls, logs, fnIn, fnOut, req, fetch, image,
          modelInput, response, aiGatewayLogId, parked>>

NoRequest == [route |-> "none"]
NoResponse == [arrived |-> FALSE]
NoFetch ==
  [st |-> "none", timer |-> "none", deadline |-> 0, calls |-> 0, response |-> NoResponse]
NoImage == [codec |-> "none"]

\* no request has arrived, and the isolate is fresh: the second frame holds what
\* the variables of a request hold before its handler runs
NoRequestYet ==
  /\ req = NoRequest
  /\ fetch = NoFetch
  /\ image = NoImage
  /\ modelInput = <<>>
  /\ response = <<>>
  /\ aiGatewayLogId = Null
  /\ parked =
       [pc |-> "idle", promise |-> NoPromise, settledAt |-> -1,
        timeoutId |-> [st |-> "none", deadline |-> 0, ms |-> 0], timersArmed |-> 0,
        guarded |-> NoPromise, settlements |-> <<>>,
        run |-> [startedAt |-> 0, asked |-> Undefined, timeoutMs |-> Undefined,
                 gateway |-> Undefined, traceId |-> Undefined,
                 thrown |-> [cls |-> "none"], out |-> Pending],
        runCalls |-> 0, logs |-> <<>>, req |-> NoRequest, fetch |-> NoFetch,
        image |-> NoImage, modelInput |-> <<>>, response |-> <<>>]

(***************************************************************************)
(* Bounds and input domains                                                *)
(***************************************************************************)
\* the clock is observed at the instants base + k, k in 0..MaxSkew, for base 0 and
\* for each sum of the program's two deadlines
MaxSkew == 1
\* the short deadlines a caller passes, 1..MaxShortTimeout ms
MaxShortTimeout == 2
\* the latest instant (ms) at which a call may start
MaxStart == 1

FETCH_TIMEOUT_MS == 15000
Instants ==
  {b + k : b \in {0, FETCH_TIMEOUT_MS, DEFAULT_AI_TIMEOUT_MS,
                  FETCH_TIMEOUT_MS + DEFAULT_AI_TIMEOUT_MS}, k \in 0..MaxSkew}

\* what a caller may pass as timeoutMs
TimeoutArgs ==
  {Num(n) : n \in -1..MaxShortTimeout} \cup {NaN, Infinity, Undefined, Str("5")}

\* failures an operation may reject with (or throw)
PlainError == [cls |-> "Error", message |-> "boom"]
ThrownString == [cls |-> "string", message |-> "oops"]
ForeignAiRunError ==
  AiRunError("AI_RUN_RESPONSE_ERROR", "upstream", 502, Str("t-up"), Undefined,
             Undefined, NoCause)
OpErrors == {PlainError, ThrownString, TimeoutError(7), ForeignAiRunError}

(***************************************************************************)
(* withTimeout  (utils/timeout.ts)                                         *)
(***************************************************************************)
NoTimer == [st |-> "none", deadline |-> 0, ms |-> 0]

\* (mutant) a deadline of zero is taken as usable
DeadlineUsableNonNegative(timeoutMs) == NumberIsFinite(timeoutMs) /\ timeoutMs.n >= 0

\* the guard's test: a positive finite deadline
DeadlineUsable(timeoutMs) == NumberIsFinite(timeoutMs) /\ timeoutMs.n > 0

\* withTimeout(p, timeoutMs) called at now: arms one timer unless the deadline is
\* unusable; the race settles at once (in the same task) when p is already settled,
\* and the finally clears the timer.
WithTimeout(p, timeoutMs) ==
  IF ~DeadlineUsable(timeoutMs)
  THEN /\ timeoutId' = NoTimer
       /\ timersArmed' = timersArmed
       /\ guarded' = p
       /\ settlements' = IF p = Pending THEN settlements ELSE Append(settlements, p)
  ELSE /\ timeoutId' = [st |-> IF p = Pending THEN "armed" ELSE "cleared",
                        deadline |-> now + timeoutMs.n, ms |-> timeoutMs.n]
       /\ timersArmed' = timersArmed + 1
       /\ guarded' = p
       /\ settlements' = IF p = Pending THEN settlements ELSE Append(settlements, p)

\* (mutant) the settlement is delivered even though the race is already settled
OperationSettlesUnguarded(o) ==
  /\ promise = Pending
  /\ promise' = o
  /\ settledAt' = now
  /\ timersArmed' = timersArmed
  /\ guarded' = o
  /\ settlements' = Append(settlements, o)
  /\ timeoutId' = IF timeoutId.st = "armed"
                  THEN [timeoutId EXCEPT !.st = "cleared"] ELSE timeoutId

\* the operation settles with outcome o: Promise.race adopts it when nothing settled
\* the race before, and .finally clears the timer
OperationSettles(o) ==
  /\ promise = Pending
  /\ promise' = o
  /\ settledAt' = now
  /\ timersArmed' = timersArmed
  /\ IF guarded = Pending
     THEN /\ guarded' = o
          /\ settlements' = Append(settlements, o)
          /\ timeoutId' = IF timeoutId.st = "armed"
                          THEN [timeoutId EXCEPT !.st = "cleared"] ELSE timeoutId
     ELSE UNCHANGED <<guarded, settlements, timeoutId>>

\* the timer callback runs, no earlier than the deadline: it rejects timeoutPromise
TimerFires ==
  /\ timeoutId.st = "armed"
  /\ now >= timeoutId.deadline
  /\ timeoutId' = [timeoutId EXCEPT !.st = "fired"]
  /\ UNCHANGED <<promise, settledAt, timersArmed>>
  /\ IF guarded = Pending
     THEN /\ guarded' = Rejected(TimeoutError(timeoutId.ms))
          /\ settlements' = Append(settlements, Rejected(TimeoutError(timeoutId.ms)))
     ELSE UNCHANGED <<guarded, settlements>>

\* something is in flight whose completion the program is waiting for, or may
\* still see complete
InFlight ==
  \/ promise = Pending
  \/ timeoutId.st = "armed"
  \/ fetch.st \in {"pending", "reading"}

\* time passes while something is in flight
Tick ==
  /\ InFlight
  /\ \E t \in Instants : t > now /\ now' = t
  /\ UNCHANGED <<pc, timeoutVars, runVars, fnVars, reqVars, aiGatewayLogId, parked>>

NoArguments == [fn |-> "none"]
NoResult == [done |-> FALSE]
Result(v) == [done |-> TRUE, v |-> v]

(***************************************************************************)
(* Specification of the guard alone                                        *)
(***************************************************************************)
NoRun ==
  [startedAt |-> 0, asked |-> Undefined, timeoutMs |-> Undefined,
   gateway |-> Undefined, traceId |-> Undefined, thrown |-> NoCause, out |-> Pending]

Outcomes0 ==
  {Fulfilled(v) : v \in {Undefined, Str("text"), Obj([success |-> Bool(TRUE)])}}
  \cup {Rejected(e) : e \in OpErrors}

GuardInit ==
  /\ now \in 0..MaxStart
  /\ pc = "idle"
  /\ promise \in {Pending} \cup Outcomes0
  /\ settledAt = IF promise = Pending THEN -1 ELSE now
  /\ timeoutId = NoTimer
  /\ timersArmed = 0
  /\ guarded = Pending
  /\ settlements = <<>>
  /\ run = NoRun
  /\ runCalls = 0
  /\ logs = <<>>
  /\ fnIn = NoArguments
  /\ fnOut = NoResult
  /\ NoRequestYet

GuardCall ==
  /\ pc = "idle"
  /\ pc' = "guarded"
  /\ \E timeoutMs \in TimeoutArgs :
       /\ WithTimeout(promise, timeoutMs)
       /\ run' = [run EXCEPT !.startedAt = now, !.timeoutMs = timeoutMs]
  /\ UNCHANGED <<now, promise, settledAt, runCalls, logs, fnVars, reqVars,
               aiGatewayLogId, parked>>

GuardSettle ==
  /\ pc = "guarded"
  /\ \E o \in Outcomes0 : OperationSettles(o)
  /\ UNCHANGED <<now, pc, runVars, fnVars, reqVars, aiGatewayLogId, parked>>

GuardFire ==
  /\ pc = "guarded"
  /\ TimerFires
  /\ UNCHANGED <<now, pc, runVars, fnVars, reqVars, aiGatewayLogId, parked>>

GuardNext == GuardCall \/ GuardSettle \/ GuardFire \/ Tick

SpecGuard == GuardInit /\ [][GuardNext]_vars

\* C1: a guard with a positive finite deadline settles with the operation's own
\* outcome when the operation settles before the deadline (and whenever it settles
\* before the timer has run), rejects with TimeoutError(timeoutMs) when the timer
\* runs first, settles with nothing else, and settles at most once.
C1_GuardSettlesOnceWithOperationOrTimeout ==
  (pc = "guarded" /\ DeadlineUsable(run.timeoutMs)) =>
    LET onTimeout == Rejected(TimeoutError(run.timeoutMs.n)) IN
    /\ timeoutId.deadline = run.startedAt + run.timeoutMs.n
    /\ (promise # Pending /\ settledAt < timeoutId.deadline => guarded = promise)
    /\ (promise # Pending /\ timeoutId.st # "fired" => guarded = promise)
    /\ (timeoutId.st = "fired" => guarded = onTimeout)
    /\ (guarded # Pending => guarded = promise \/ guarded = onTimeout)
    /\ Len(settlements) <= 1
    /\ (guarded # Pending => settlements = <<guarded>>)

\* the deadline ran out first, and the operation settled afterwards with its own
\* outcome, which the guard ignores
C1_Witness ==
  /\ pc = "guarded"
  /\ timeoutId.st = "fired"
  /\ promise.kind = "value"
  /\ guarded = Rejected(TimeoutError(run.timeoutMs.n))
  /\ settlements = <<guarded>>

\* C20: withTimeout arms exactly one timer when timeoutMs is a positive finite
\* number; when timeoutMs is NaN, infinite, zero or negative it arms none and returns
\* the operation itself, so that the caller sees the operation's own outcome and no
\* deadline.
C20_TimerArmedOnlyForUsableDeadline ==
  (pc = "guarded") =>
    LET timeoutMs == run.timeoutMs IN
    /\ (timeoutMs.t = "number" /\ timeoutMs.n > 0) =>
         /\ timersArmed = 1
         /\ timeoutId # NoTimer
    /\ (timeoutMs \in {NaN, Infinity} \/ (timeoutMs.t = "number" /\ timeoutMs.n <= 0)) =>
         /\ timersArmed = 0
         /\ timeoutId = NoTimer
         /\ guarded = promise
         /\ settlements = IF promise = Pending THEN <<>> ELSE <<promise>>

\* a guard called with NaN armed no timer, and the operation's rejection, long
\* after, is what the caller saw
C20_Witness ==
  /\ pc = "guarded"
  /\ run.timeoutMs = NaN
  /\ timersArmed = 0
  /\ now >= DEFAULT_AI_TIMEOUT_MS
  /\ promise = Rejected(PlainError)
  /\ settlements = <<promise>>

(***************************************************************************)
(* runAiModel  (services/ai-service)                                       *)
(***************************************************************************)
\* (mutant) any falsy success counts as an error response
isErrorResponseFalsySuccess(value) ==
  IF ~Truthy(value) \/ TypeOf(value) # "object" THEN FALSE
  ELSE IF ~Truthy(Get(value, "success")) THEN TRUE
  ELSE IF Get(value, "errors").t = "array" /\ Len(Get(value, "errors").items) > 0
       THEN TRUE
  ELSE FALSE

\* isErrorResponse(value)
isErrorResponse(value) ==
  IF ~Truthy(value) \/ TypeOf(value) # "object" THEN FALSE
  ELSE IF Get(value, "success") = Bool(FALSE) THEN TRUE
  ELSE IF Get(value, "errors").t = "array" /\ Len(Get(value, "errors").items) > 0
       THEN TRUE
  ELSE FALSE

\* logAiSuccess / logAiFailure
logAiSuccess(durationMs, traceId) ==
  [event |-> "ai_run_success", errorCode |-> "", durationMs |-> Num(durationMs),
   traceId |-> traceId]
logAiFailure(error) ==
  [event |-> "ai_run_error", errorCode |-> error.code,
   durationMs |-> error.durationMs, traceId |-> error.traceId]

\* (mutant) any number the caller gives is taken as the deadline
EffectiveTimeoutMsAnyNumber(timeoutMs) ==
  IF TypeOf(timeoutMs) = "number" THEN timeoutMs ELSE Num(DEFAULT_AI_TIMEOUT_MS)

\* the effective deadline: options.timeoutMs when it is a positive finite number,
\* else the default
EffectiveTimeoutMs(timeoutMs) ==
  IF TypeOf(timeoutMs) = "number" /\ NumberIsFinite(timeoutMs) /\ timeoutMs.n > 0
  THEN timeoutMs ELSE Num(DEFAULT_AI_TIMEOUT_MS)

\* overrideTraceId || traceId
EffectiveTraceId(overrideTraceId, traceId) ==
  IF Truthy(overrideTraceId) THEN overrideTraceId ELSE traceId

\* (mutant) the catch block without its TimeoutError branch
RunCatchNoTimeoutBranch(error, durationMs, traceId) ==
  IF error.cls = "AiRunError"
  THEN [err |-> error, logs |-> <<logAiFailure(error)>>]
  ELSE LET wrapped ==
             AiRunError("AI_RUN_EXCEPTION", "AI run threw an exception", 500,
                        traceId, Num(durationMs), Undefined, error)
       IN [err |-> wrapped, logs |-> <<logAiFailure(wrapped)>>]

\* (mutant) the catch block rethrowing what it does not recognise
RunCatchRethrows(error, durationMs, traceId) ==
  IF error.cls = "AiRunError"
  THEN [err |-> error, logs |-> <<logAiFailure(error)>>]
  ELSE IF error.cls = "TimeoutError"
  THEN LET wrapped ==
             AiRunError("AI_RUN_TIMEOUT", "AI run timed out", 504, traceId,
                        Num(durationMs), Undefined, error)
       IN [err |-> wrapped, logs |-> <<logAiFailure(wrapped)>>]
  ELSE [err |-> error, logs |-> <<>>]

\* the catch block: what is thrown out of runAiModel for `error`, and the records
\* it logs
RunCatch(error, durationMs, traceId) ==
  IF error.cls = "AiRunError"
  THEN [err |-> error, logs |-> <<logAiFailure(error)>>]
  ELSE LET wrapped ==
             IF error.cls = "TimeoutError"
             THEN AiRunError("AI_RUN_TIMEOUT", "AI run timed out", 504, traceId,
                             Num(durationMs), Undefined, error)
             ELSE AiRunError("AI_RUN_EXCEPTION", "AI run threw an exception", 500,
                             traceId, Num(durationMs), Undefined, error)
       IN [err |-> wrapped, logs |-> <<logAiFailure(wrapped)>>]

\* runAiModel resumed after its await with the guard's outcome, at time t
RunAfterAwait(outcome, startedAt, t, traceId) ==
  LET durationMs == t - startedAt IN
  IF outcome.kind = "value"
  THEN LET ok == <<logAiSuccess(durationMs, traceId)>> IN
       IF isErrorResponse(outcome.v)
       THEN LET c == RunCatch(AiRunError("AI_RUN_RESPONSE_ERROR",
                                         "AI run returned an error response", 502,
                                         traceId, Num(durationMs), outcome.v, NoCause),
                              durationMs, traceId)
            IN [out |-> Rejected(c.err), logs |-> ok \o c.logs]
       ELSE [out |-> Fulfilled(outcome.v), logs |-> ok]
  ELSE LET c == RunCatch(outcome.e, durationMs, traceId)
       IN [out |-> Rejected(c.err), logs |-> c.logs]

\* the records as logAiSuccess and logAiFailure write them, with the gatewayLogId
\* their caller reads off the binding: ai.aiGatewayLogId ?? undefined
WithGatewayLogId(records, logId) ==
  [i \in DOMAIN records |->
     [event |-> records[i].event, errorCode |-> records[i].errorCode,
      durationMs |-> records[i].durationMs, traceId |-> records[i].traceId,
      gatewayLogId |-> Coalesce(logId, Undefined)]]

\* ai.run has returned: the binding keeps the log id the gateway gave this call,
\* null when the call did not go through a gateway; a call that fails before any
\* reply leaves the property as it was
AiRunReturns(o) ==
  aiGatewayLogId' =
    IF o.kind # "value" THEN aiGatewayLogId
    ELSE IF Truthy(run.gateway) THEN [t |-> "string", logOf |-> run.traceId]
    ELSE Null

\* ai.run has been called in this step, or not: whether the binding clears the
\* property when a call starts is the binding's affair, so both are allowed
AiRunCalled ==
  aiGatewayLogId' \in
    IF runCalls' # runCalls /\ run'.thrown = NoCause
    THEN {aiGatewayLogId, Null} ELSE {aiGatewayLogId}

\* (mutant) ai.run is called a second time when its first call has thrown
RunAiModelRetrying(options, traceId, thrown) ==
  LET effectiveTraceId == EffectiveTraceId(options.traceId, traceId)
      effectiveTimeoutMs == EffectiveTimeoutMs(options.timeoutMs)
  IN IF thrown # NoCause
     THEN LET c == RunCatch(thrown, 0, effectiveTraceId) IN
          /\ runCalls' = runCalls + 2
          /\ run' = [startedAt |-> now, asked |-> options.timeoutMs,
                     timeoutMs |-> effectiveTimeoutMs,
                     gateway |-> options.gateway, traceId |-> effectiveTraceId, thrown |-> thrown,
                     out |-> Rejected(c.err)]
          /\ logs' = logs \o WithGatewayLogId(c.logs, aiGatewayLogId)
          /\ UNCHANGED timeoutVars
     ELSE /\ runCalls' = runCalls + 1
          /\ run' = [startedAt |-> now, asked |-> options.timeoutMs,
                     timeoutMs |-> effectiveTimeoutMs,
                     gateway |-> options.gateway, traceId |-> effectiveTraceId, thrown |-> NoCause,
                     out |-> Pending]
          /\ logs' = logs
          /\ promise' = Pending
          /\ settledAt' = -1
          /\ WithTimeout(Pending, effectiveTimeoutMs)

\* runAiModel({ai, model, input, options, traceId}) up to its await: `thrown` is
\* what ai.run throws synchronously, NoCause when it returns a promise
RunAiModel(options, traceId, thrown) ==
  LET effectiveTraceId == EffectiveTraceId(options.traceId, traceId)
      effectiveTimeoutMs == EffectiveTimeoutMs(options.timeoutMs)
  IN /\ runCalls' = runCalls + 1
     /\ IF thrown # NoCause
        THEN LET c == RunCatch(thrown, 0, effectiveTraceId) IN
             /\ run' = [startedAt |-> now, asked |-> options.timeoutMs,
                        timeoutMs |-> effectiveTimeoutMs,
                        gateway |-> options.gateway, traceId |-> effectiveTraceId, thrown |-> thrown,
                        out |-> Rejected(c.err)]
             /\ logs' = logs \o WithGatewayLogId(c.logs, aiGatewayLogId)
             /\ UNCHANGED timeoutVars
        ELSE /\ run' = [startedAt |-> now, asked |-> options.timeoutMs,
                        timeoutMs |-> effectiveTimeoutMs,
                        gateway |-> options.gateway, traceId |-> effectiveTraceId, thrown |-> NoCause,
                        out |-> Pending]
             /\ logs' = logs
             /\ promise' = Pending
             /\ settledAt' = -1
             /\ WithTimeout(Pending, effectiveTimeoutMs)

\* (mutant) runAiModel is resumed by every settlement of the service call, the late
\* ones included
RunResumesOnLateSettlement ==
  IF guarded' # Pending /\ (guarded = Pending \/ promise' # promise)
  THEN LET r == RunAfterAwait(IF guarded = Pending THEN guarded' ELSE promise',
                              run.startedAt, now, run.traceId) IN
       /\ run' = [run EXCEPT !.out = r.out]
       /\ logs' = logs \o WithGatewayLogId(r.logs, aiGatewayLogId')
  ELSE UNCHANGED <<run, logs>>

\* the continuation of runAiModel when the guard has just settled
RunResumes ==
  IF guarded = Pending /\ guarded' # Pending
  THEN LET r == RunAfterAwait(guarded', run.startedAt, now, run.traceId) IN
       /\ run' = [run EXCEPT !.out = r.out]
       /\ logs' = logs \o WithGatewayLogId(r.logs, aiGatewayLogId')
  ELSE UNCHANGED <<run, logs>>

(***************************************************************************)
(* Specification of runAiModel alone                                       *)
(***************************************************************************)
NoOptions == [timeoutMs |-> Undefined, traceId |-> Undefined, gateway |-> Undefined]
\* options.gateway, which is passed on to ai.run: the call goes through the AI Gateway
ViaGateway == [NoOptions EXCEPT !.gateway = Obj([id |-> Str("gw")])]
RunOptions ==
  {NoOptions, ViaGateway} \cup
  [timeoutMs : TimeoutArgs, traceId : {Undefined, Str(""), Str("t-body")},
   gateway : {Undefined}]

Detection(label, score, box) == Obj([label |-> label, score |-> score, box |-> box])
CornerBox(xmin, ymin, xmax, ymax) ==
  Obj([xmin |-> Num(xmin), ymin |-> Num(ymin), xmax |-> Num(xmax), ymax |-> Num(ymax)])

\* what the model service may resolve with
RunOutcomes ==
  LET RunPayloads ==
        { Undefined, Null, Str("text"), Num(0), Bool(FALSE), Arr(<<>>),
          Arr(<<Detection(Str("person"), Num(90), CornerBox(10, 10, 50, 50))>>),
          Obj([response |-> Str("maybe")]),
          Obj([success |-> Bool(TRUE), errors |-> Arr(<<>>)]),
          Obj([success |-> Bool(FALSE)]),
          Obj([success |-> Str("false")]),
          Obj([success |-> Bool(TRUE), errors |-> Arr(<<Str("quota")>>)]),
          Obj([errors |-> Arr(<<Str("quota")>>)]),
          Obj([errors |-> Str("quota")]),
          Obj([errors |-> Obj([length |-> Num(1)])]) }
  IN {Fulfilled(v) : v \in RunPayloads} \cup {Rejected(e) : e \in OpErrors}

RunInit ==
  /\ now \in 0..MaxStart
  /\ pc = "idle"
  /\ promise = NoPromise
  /\ settledAt = -1
  /\ timeoutId = NoTimer
  /\ timersArmed = 0
  /\ guarded = NoPromise
  /\ settlements = <<>>
  /\ run = NoRun
  /\ runCalls = 0
  /\ logs = <<>>
  /\ fnIn = NoArguments
  /\ fnOut = NoResult
  /\ NoRequestYet

RunCall ==
  /\ pc = "idle"
  /\ \E options \in RunOptions, thrown \in {NoCause} \cup OpErrors :
       RunAiModel(options, Str("t-req"), thrown)
  /\ pc' = IF run'.out = Pending THEN "running" ELSE "done"
  /\ AiRunCalled
  /\ UNCHANGED <<now, fnVars, reqVars, parked>>

RunSettle ==
  /\ pc \in {"running", "done"}
  /\ \E o \in RunOutcomes : OperationSettles(o) /\ AiRunReturns(o)
  /\ RunResumes
  /\ pc' = "done"
  /\ UNCHANGED <<now, runCalls, fnVars, reqVars, parked>>

RunFire ==
  /\ pc = "running"
  /\ TimerFires
  /\ UNCHANGED aiGatewayLogId
  /\ RunResumes
  /\ pc' = "done"
  /\ UNCHANGED <<now, runCalls, fnVars, reqVars, parked>>

RunNext == RunCall \/ RunSettle \/ RunFire \/ Tick

SpecRun == RunInit /\ [][RunNext]_vars

\* the event loop keeps running: time passes while something is awaited, and a
\* timer that is due has its callback run.  Nothing obliges the service call to
\* settle.
SpecRunLive == RunInit /\ [][RunNext]_vars /\ WF_vars(Tick) /\ WF_vars(RunFire)

\* C2: when the timer of the invocation runs while the service call is unsettled,
\* runAiModel fails with AiRunError AI_RUN_TIMEOUT, status 504, a durationMs of at
\* least the effective timeout and the TimeoutError as cause; the invocation armed
\* that one timer only and it is armed no more.
C2_TimeoutYieldsAiRunTimeout ==
  (pc # "idle" /\ timeoutId.st = "fired") =>
    /\ run.out.kind = "error"
    /\ run.out.e.cls = "AiRunError"
    /\ run.out.e.code = "AI_RUN_TIMEOUT"
    /\ run.out.e.status = 504
    /\ run.out.e.durationMs.t = "number"
    /\ run.out.e.durationMs.n >= run.timeoutMs.n
    /\ run.out.e.cause = TimeoutError(run.timeoutMs.n)
    /\ timersArmed = 1
    /\ timeoutId.st # "armed"

\* the caller asked for no usable deadline, the default one ran out, and the
\* service call settled only afterwards
C2_Witness ==
  /\ pc = "done"
  /\ timeoutId.st = "fired"
  /\ run.timeoutMs = Num(DEFAULT_AI_TIMEOUT_MS)
  /\ promise.kind = "value"
  /\ run.out.kind = "error"
  /\ run.out.e.code = "AI_RUN_TIMEOUT"

\* the claim's own reading of an error payload: an object whose success is the
\* boolean false, or whose errors is a non-empty array
ClaimsErrorPayload(v) ==
  /\ v.t = "object"
  /\ \/ ("success" \in DOMAIN v.f /\ v.f.success = Bool(FALSE))
     \/ /\ "errors" \in DOMAIN v.f
        /\ v.f.errors.t = "array"
        /\ v.f.errors.items # <<>>

\* C3: when the guard resolves with the service's payload, runAiModel fails with
\* AI_RUN_RESPONSE_ERROR (502) whose raw is that payload exactly when the payload is
\* an object with success === false or a non-empty errors array, and returns the
\* payload unchanged otherwise.
C3_ErrorPayloadIffResponseError ==
  (pc # "idle" /\ guarded.kind = "value") =>
    IF ClaimsErrorPayload(guarded.v)
    THEN /\ run.out.kind = "error"
         /\ run.out.e.cls = "AiRunError"
         /\ run.out.e.code = "AI_RUN_RESPONSE_ERROR"
         /\ run.out.e.status = 502
         /\ run.out.e.raw = guarded.v
    ELSE run.out = Fulfilled(guarded.v)

\* a payload with success true and a non-empty errors array was received and
\* turned into a response error
C3_Witness ==
  /\ pc = "done"
  /\ guarded = Fulfilled(Obj([success |-> Bool(TRUE), errors |-> Arr(<<Str("quota")>>)]))
  /\ run.out.kind = "error"
  /\ run.out.e.raw = guarded.v

\* the failure runAiModel saw from the service call: what ai.run threw, or what the
\* awaited guard rejected with on the operation's behalf
ServiceFailure ==
  IF run.thrown # NoCause THEN run.thrown
  ELSE IF guarded.kind = "error" /\ timeoutId.st # "fired" THEN guarded.e
  ELSE NoCause

\* C4: a failure of the service call that is neither a TimeoutError nor an
\* AiRunError, thrown synchronously or delivered by rejection, makes runAiModel fail
\* with AiRunError AI_RUN_EXCEPTION whose cause is that failure; nothing but an
\* AiRunError ever leaves runAiModel as a failure.
C4_OtherFailuresWrappedAsException ==
  (pc # "idle") =>
    /\ (ServiceFailure # NoCause /\ ServiceFailure.cls \notin {"TimeoutError", "AiRunError"}
          => /\ run.out.kind = "error"
             /\ run.out.e.cls = "AiRunError"
             /\ run.out.e.code = "AI_RUN_EXCEPTION"
             /\ run.out.e.cause = ServiceFailure)
    /\ (run.out.kind = "error" => run.out.e.cls = "AiRunError")

\* the service call rejected with a thrown string while awaited
C4_Witness ==
  /\ pc = "done"
  /\ run.thrown = NoCause
  /\ promise = Rejected(ThrownString)
  /\ guarded = promise
  /\ run.out.kind = "error"
  /\ run.out.e.cause = ThrownString

(***************************************************************************)
(* Bounding-box strategy: hasPerson  (routes/vision.ts)                    *)
(***************************************************************************)
\* numberOrUndefined(value)
numberOrUndefined(value) ==
  IF TypeOf(value) = "number" /\ NumberIsFinite(value) THEN value ELSE Undefined

\* (mutant) a side that is not in (0, 1] gives the area 0
normalizedAreaZeroed(width, height) ==
  IF width <= 0 \/ height <= 0 THEN Num(0)
  ELSE IF width > 100 \/ height > 100 THEN Num(0)
  ELSE Num(width * height)

\* the area is in ten-thousandths; null when a side is not in (0, 1]
normalizedArea(width, height) ==
  IF width <= 0 \/ height <= 0 THEN Null
  ELSE IF width > 100 \/ height > 100 THEN Null
  ELSE Num(width * height)

\* a ?? b ?? c ?? d
Coalesce4(a, b, c, d) == Coalesce(Coalesce(Coalesce(a, b), c), d)

\* box[i] of an array box, 0-based
At(box, i) == IF i + 1 <= Len(box.items) THEN box.items[i + 1] ELSE Undefined

\* extractAreaRatio(record): the area ratio in ten-thousandths, or null
extractAreaRatio(record) ==
  LET box == Get(record, "box") IN
  IF ~Truthy(box) \/ TypeOf(box) # "object" THEN Null
  ELSE
    LET x1 == numberOrUndefined(Coalesce4(Get(box, "xmin"), Get(box, "x1"),
                                          Get(box, "left"), Get(box, "x0")))
        y1 == numberOrUndefined(Coalesce4(Get(box, "ymin"), Get(box, "y1"),
                                          Get(box, "top"), Get(box, "y0")))
        x2 == numberOrUndefined(Coalesce4(Get(box, "xmax"), Get(box, "x2"),
                                          Get(box, "right"), Get(box, "x1")))
        y2 == numberOrUndefined(Coalesce4(Get(box, "ymax"), Get(box, "y2"),
                                          Get(box, "bottom"), Get(box, "y1")))
        width == numberOrUndefined(Coalesce(Get(box, "w"), Get(box, "width")))
        height == numberOrUndefined(Coalesce(Get(box, "h"), Get(box, "height")))
    IN
    IF x1 # Undefined /\ y1 # Undefined /\ x2 # Undefined /\ y2 # Undefined
    THEN normalizedArea(x2.n - x1.n, y2.n - y1.n)
    ELSE IF width # Undefined /\ height # Undefined
    THEN normalizedArea(width.n, height.n)
    ELSE IF box.t = "array" /\ Len(box.items) >= 4
    THEN LET bx1 == numberOrUndefined(At(box, 0))
             by1 == numberOrUndefined(At(box, 1))
             bx2 == numberOrUndefined(At(box, 2))
             by2 == numberOrUndefined(At(box, 3))
         IN IF bx1 # Undefined /\ by1 # Undefined /\ bx2 # Undefined /\ by2 # Undefined
            THEN normalizedArea(bx2.n - bx1.n, by2.n - by1.n)
            ELSE Null
    ELSE Null

\* the callback of result.some(...): whether one item counts as a person.
\* threshold is in hundredths, and so is minAreaRatio.
IsPersonItem(item, threshold, minAreaRatio) ==
  IF ~Truthy(item) \/ TypeOf(item) # "object" THEN FALSE
  ELSE IF Get(item, "label") # Str("person") \/ TypeOf(Get(item, "score")) # "number"
  THEN FALSE
  ELSE IF Get(item, "score").t = "number" /\ Get(item, "score").n < threshold
  THEN FALSE
  ELSE LET ratio == extractAreaRatio(item) IN
       IF ratio = Null THEN TRUE ELSE ratio.n >= minAreaRatio * 100

\* (mutant) a missing area ratio fails the area check
hasPersonStrictArea(result, threshold, minAreaRatio) ==
  IF result.t # "array" THEN FALSE
  ELSE \E i \in 1..Len(result.items) :
         /\ IsPersonItem(result.items[i], threshold, minAreaRatio)
         /\ extractAreaRatio(result.items[i]) # Null

\* hasPerson(result, threshold, minAreaRatio)
hasPerson(result, threshold, minAreaRatio) ==
  IF result.t # "array" THEN FALSE
  ELSE \E i \in 1..Len(result.items) :
         IsPersonItem(result.items[i], threshold, minAreaRatio)

(***************************************************************************)
(* Specification of hasPerson: the arguments are drawn, the function applied*)
(***************************************************************************)
\* the longest detection array drawn
MaxDetections == 2

\* the spec's scenario: a person of score 0.9 in a 0.4 x 0.4 box
ScenarioBox == CornerBox(10, 10, 50, 50)
ScenarioDetection == Detection(Str("person"), Num(90), ScenarioBox)

SeqsUpTo(S, n) == UNION {[1..k -> S] : k \in 0..n}

\* what hasPerson is given: detection scores are finite numbers (they arrive as
\* JSON) or not numbers at all
SampleResults ==
  LET SampleBoxes ==
        { Undefined, Null, Str("box"), Num(1), Obj(<<>>),
          ScenarioBox,
          CornerBox(0, 0, 100, 100),
          CornerBox(0, 0, 150, 50),
          CornerBox(50, 10, 10, 50),
          Obj([xmin |-> Num(0), ymin |-> Num(0), xmax |-> Infinity, ymax |-> Num(50)]),
          Obj([xmin |-> Str("0.1"), ymin |-> Num(10), xmax |-> Num(50), ymax |-> Num(50)]),
          Obj([x1 |-> Num(10), y1 |-> Num(10), x2 |-> Num(60), y2 |-> Num(60)]),
          Obj([left |-> Num(0), top |-> Num(0), right |-> Num(30), bottom |-> Num(30)]),
          Obj([x0 |-> Num(10), y0 |-> Num(10), x1 |-> Num(60), y1 |-> Num(60)]),
          Obj([w |-> Num(40), h |-> Num(40)]),
          Obj([width |-> Num(50), height |-> Num(50)]),
          Obj([width |-> Num(50)]),
          Arr(<<Num(10), Num(10), Num(50), Num(50)>>),
          Arr(<<Num(10), Num(10), Num(50)>>),
          Arr(<<Num(10), Str("10"), Num(50), Num(50)>>) }
      SampleDetections ==
        {Detection(Str("person"), Num(90), b) : b \in SampleBoxes} \cup
        {Detection(l, Num(90), ScenarioBox) : l \in {Str("Person"), Str("cat"), Num(1)}} \cup
        {Detection(Str("person"), c, ScenarioBox) :
           c \in {Num(70), Num(69), Num(0), Str("0.9"), Undefined}} \cup
        { Obj([label |-> Str("person"), score |-> Num(80)]), Null, Str("person"),
          Obj([score |-> Num(80)]) }
  IN {Arr(items) : items \in SeqsUpTo(SampleDetections, MaxDetections)} \cup
     {Undefined, Null, Str("person"), ScenarioDetection,
      Obj([label |-> Str("person"), score |-> Num(90)])}

PersonInit ==
  /\ now = 0
  /\ pc = "idle"
  /\ promise = NoPromise
  /\ settledAt = -1
  /\ timeoutId = NoTimer
  /\ timersArmed = 0
  /\ guarded = NoPromise
  /\ settlements = <<>>
  /\ run = NoRun
  /\ runCalls = 0
  /\ logs = <<>>
  /\ fnIn \in [fn : {"hasPerson"}, result : SampleResults,
               threshold : {0, 70, 90, 100}, minAreaRatio : {0, 10, 16, 20, 100}]
  /\ fnOut = NoResult
  /\ NoRequestYet

PersonApply ==
  /\ fnIn.fn = "hasPerson"
  /\ ~fnOut.done
  /\ fnOut' = Result(hasPerson(fnIn.result, fnIn.threshold, fnIn.minAreaRatio))
  /\ UNCHANGED <<now, pc, timeoutVars, runVars, fnIn, reqVars, aiGatewayLogId, parked>>

PersonNext == PersonApply

SpecPerson == PersonInit /\ [][PersonNext]_vars

\* the claim's criterion for one record, in terms of the extracted area ratio
ClaimsPersonRecord(d, threshold, minAreaRatio) ==
  /\ d.t = "object"
  /\ "label" \in DOMAIN d.f /\ d.f.label = Str("person")
  /\ "score" \in DOMAIN d.f /\ d.f.score.t = "number" /\ d.f.score.n >= threshold
  /\ \/ extractAreaRatio(d) = Null
     \/ extractAreaRatio(d).n >= minAreaRatio * 100

\* C10: hasPerson is true exactly when the result is an array holding a record with
\* label "person", a numeric score >= threshold and an area ratio that is missing
\* or >= minAreaRatio; the 0.4 x 0.4 person box of score 0.9 with threshold 0.7 has
\* ratio 0.16 and gives false for minAreaRatio 0.2 and true for 0.1.
C10_HasPersonIffQualifyingRecord ==
  fnOut.done =>
    /\ fnOut.v = ( /\ fnIn.result.t = "array"
                   /\ \E i \in 1..Len(fnIn.result.items) :
                        ClaimsPersonRecord(fnIn.result.items[i], fnIn.threshold,
                                           fnIn.minAreaRatio) )
    /\ (fnIn.result = Arr(<<ScenarioDetection>>) /\ fnIn.threshold = 70 =>
          /\ extractAreaRatio(ScenarioDetection) = Num(1600)
          /\ (fnIn.minAreaRatio = 20 => fnOut.v = FALSE)
          /\ (fnIn.minAreaRatio = 10 => fnOut.v = TRUE))

\* the scenario detection was evaluated with threshold 0.7 and minAreaRatio 0.2
C10_Witness ==
  /\ fnOut.done
  /\ fnIn.result = Arr(<<ScenarioDetection>>)
  /\ fnIn.threshold = 70
  /\ fnIn.minAreaRatio = 20
  /\ fnOut.v = FALSE

\* the claim's boxes that give no ratio: a box that is missing or is no object, or
\* a box in corner form or in width/height form with a side that is not a finite
\* number, is not positive or is greater than 1
ClaimsUnusableBox(d) ==
  LET box == IF "box" \in DOMAIN d.f THEN d.f.box ELSE Undefined
      BadSide(lo, hi) ==
        lo.t # "number" \/ hi.t # "number" \/ hi.n - lo.n <= 0 \/ hi.n - lo.n > 100
  IN \/ box.t \in {"undefined", "null"}
     \/ box.t \notin {"object", "array"}
     \/ /\ box.t = "object"
        /\ DOMAIN box.f = {"xmin", "ymin", "xmax", "ymax"}
        /\ BadSide(box.f.xmin, box.f.xmax) \/ BadSide(box.f.ymin, box.f.ymax)
     \/ /\ box.t = "object"
        /\ DOMAIN box.f = {"w", "h"}
        /\ BadSide(Num(0), box.f.w) \/ BadSide(Num(0), box.f.h)

\* C11: a detection with label "person" and a score >= threshold whose box is
\* missing, is no object or cannot be turned into a ratio makes hasPerson true
\* whatever minAreaRatio is: the area check is skipped for it, not failed.
C11_UnusableBoxSkipsAreaCheck ==
  (fnOut.done /\ fnIn.result.t = "array") =>
    \A i \in 1..Len(fnIn.result.items) :
      LET d == fnIn.result.items[i] IN
      ( /\ d.t = "object"
        /\ "label" \in DOMAIN d.f /\ d.f.label = Str("person")
        /\ "score" \in DOMAIN d.f /\ d.f.score.t = "number"
        /\ d.f.score.n >= fnIn.threshold
        /\ ClaimsUnusableBox(d) ) => fnOut.v = TRUE

\* a lone person detection whose box has a negative width was accepted although
\* minAreaRatio is 1
C11_Witness ==
  /\ fnOut.done
  /\ fnIn.result = Arr(<<Detection(Str("person"), Num(90), CornerBox(50, 10, 10, 50))>>)
  /\ fnIn.threshold = 70
  /\ fnIn.minAreaRatio = 100
  /\ fnOut.v = TRUE

(***************************************************************************)
(* Strings, character by character                                         *)
(***************************************************************************)
\* one character of s.toLowerCase()
ToLowerChar(c) ==
  LET UpperCaseLetters ==
        <<"A", "B", "C", "D", "E", "F", "G", "H", "I", "J", "K", "L", "M",
          "N", "O", "P", "Q", "R", "S", "T", "U", "V", "W", "X", "Y", "Z">>
      LowerCaseLetters ==
        <<"a", "b", "c", "d", "e", "f", "g", "h", "i", "j", "k", "l", "m",
          "n", "o", "p", "q", "r", "s", "t", "u", "v", "w", "x", "y", "z">>
  IN IF \E i \in 1..Len(UpperCaseLetters) : UpperCaseLetters[i] = c
     THEN LowerCaseLetters[CHOOSE i \in 1..Len(UpperCaseLetters) : UpperCaseLetters[i] = c]
     ELSE c

\* s.toLowerCase()
ToLowerCase(cs) == [i \in 1..Len(cs) |-> ToLowerChar(cs[i])]

\* s.includes(sub)
Includes(cs, sub) ==
  \E i \in 0..(Len(cs) - Len(sub)) : SubSeq(cs, i + 1, i + Len(sub)) = sub

\* s.startsWith(prefix)
StartsWith(cs, prefix) ==
  Len(cs) >= Len(prefix) /\ SubSeq(cs, 1, Len(prefix)) = prefix

\* s.split(c)[0]
SplitFirst(cs, c) ==
  IF \E i \in 1..Len(cs) : cs[i] = c
  THEN SubSeq(cs, 1, (CHOOSE i \in 1..Len(cs) :
                        cs[i] = c /\ \A j \in 1..(i - 1) : cs[j] # c) - 1)
  ELSE cs

\* s.trim(), for blanks
Trim(cs) ==
  IF \A i \in 1..Len(cs) : cs[i] = " " THEN <<>>
  ELSE LET first == CHOOSE i \in 1..Len(cs) :
                      cs[i] # " " /\ \A j \in 1..(i - 1) : cs[j] = " "
           last == CHOOSE i \in 1..Len(cs) :
                     cs[i] # " " /\ \A j \in (i + 1)..Len(cs) : cs[j] = " "
       IN SubSeq(cs, first, last)

IMAGE_SLASH == <<"i", "m", "a", "g", "e", "/">>
IMAGE_AVIF == <<"i", "m", "a", "g", "e", "/", "a", "v", "i", "f">>
IMAGE_PNG == <<"i", "m", "a", "g", "e", "/", "p", "n", "g">>
IMAGE_GIF == <<"i", "m", "a", "g", "e", "/", "g", "i", "f">>

(***************************************************************************)
(* Image bytes: a buffer is its byte length and its first bytes (at most   *)
(* the first 36), and where the bytes came from                            *)
(***************************************************************************)
MAX_IMAGE_BYTES == 10 * 1024 * 1024

Buffer(head, size, origin) == [head |-> head, size |-> size, origin |-> origin]

\* bytes[i], 0-based; -1 stands for undefined (past the end)
ByteAt(buffer, i) == IF i < Len(buffer.head) THEN buffer.head[i + 1] ELSE -1

\* new Uint8Array(buffer.slice(0, 32)).length
SliceLength(buffer) == IF buffer.size < 32 THEN buffer.size ELSE 32

\* the character codes of 'avif' and 'avis'
BRAND_AVIF == <<97, 118, 105, 102>>
BRAND_AVIS == <<97, 118, 105, 115>>

\* (mutant) only the declared content type is consulted
isAvifDeclaredOnly(buffer, contentType) ==
  contentType # Undefined /\ Includes(ToLowerCase(contentType.chars), IMAGE_AVIF)

\* isAvif(buffer, contentType)
isAvif(buffer, contentType) ==
  IF contentType # Undefined /\ Includes(ToLowerCase(contentType.chars), IMAGE_AVIF)
  THEN TRUE
  ELSE IF SliceLength(buffer) < 12 THEN FALSE
  ELSE IF ~( /\ ByteAt(buffer, 4) = 102 /\ ByteAt(buffer, 5) = 116
             /\ ByteAt(buffer, 6) = 121 /\ ByteAt(buffer, 7) = 112 )
  THEN FALSE
  ELSE \E offset \in {8, 12, 16, 20, 24, 28} :
         /\ ~(offset + 4 > SliceLength(buffer))
         /\ <<ByteAt(buffer, offset), ByteAt(buffer, offset + 1),
              ByteAt(buffer, offset + 2), ByteAt(buffer, offset + 3)>>
              \in {BRAND_AVIF, BRAND_AVIS}

\* detectMimeType(bytes)
detectMimeType(bytes) ==
  IF bytes.size >= 12
  THEN IF /\ ByteAt(bytes, 0) = 137 /\ ByteAt(bytes, 1) = 80
          /\ ByteAt(bytes, 2) = 78 /\ ByteAt(bytes, 3) = 71
       THEN Chars(IMAGE_PNG)
       ELSE IF ByteAt(bytes, 0) = 255 /\ ByteAt(bytes, 1) = 216
       THEN Chars(<<"i", "m", "a", "g", "e", "/", "j", "p", "e", "g">>)
       ELSE IF ByteAt(bytes, 0) = 71 /\ ByteAt(bytes, 1) = 73 /\ ByteAt(bytes, 2) = 70
       THEN Chars(IMAGE_GIF)
       ELSE IF /\ ByteAt(bytes, 0) = 82 /\ ByteAt(bytes, 1) = 73
               /\ ByteAt(bytes, 2) = 70 /\ ByteAt(bytes, 3) = 70
               /\ ByteAt(bytes, 8) = 87 /\ ByteAt(bytes, 9) = 69
               /\ ByteAt(bytes, 10) = 66 /\ ByteAt(bytes, 11) = 80
       THEN Chars(<<"i", "m", "a", "g", "e", "/", "w", "e", "b", "p">>)
       ELSE Undefined
  ELSE Undefined

\* (mutant) the declared type is used without looking at it
normalizeMimeTypeTrusting(contentType, bytes) ==
  IF Truthy(contentType)
  THEN Chars(ToLowerCase(Trim(SplitFirst(contentType.chars, ";"))))
  ELSE Coalesce(detectMimeType(bytes), Chars(IMAGE_PNG))

\* normalizeMimeType(contentType, bytes)
normalizeMimeType(contentType, bytes) ==
  IF /\ Truthy(contentType)
     /\ StartsWith(ToLowerCase(Trim(SplitFirst(contentType.chars, ";"))), IMAGE_SLASH)
  THEN Chars(ToLowerCase(Trim(SplitFirst(contentType.chars, ";"))))
  ELSE Coalesce(detectMimeType(bytes), Chars(IMAGE_PNG))

\* the first bytes of a PNG file, as encodePng writes them
PngHead ==
  <<137, 80, 78, 71, 13, 10, 26, 10, 0, 0, 0, 13, 73, 72, 68, 82, 46, 46, 46, 46, 46, 46, 46, 46, 46, 46, 46, 46, 46, 46, 46, 46, 46, 46, 46, 46>>

\* what decodeAvif followed by encodePng may do with a buffer: fail, or give PNG
\* bytes of some length
CodecFailure == [cls |-> "Error", message |-> "decode failed"]
CodecOutcomes == {[ok |-> FALSE]} \cup [ok : {TRUE}, size : {36, MAX_IMAGE_BYTES + 1}]

Ok(v) == [ok |-> TRUE, v |-> v]
Throws(e) == [ok |-> FALSE, e |-> e]

InvalidAvif(traceId) ==
  AiRunError("INVALID_INPUT", "Failed to decode AVIF image", 400, traceId,
             Undefined, Undefined, CodecFailure)

\* maybeTranscodeAvif(buffer, contentType, traceId), `codec` being what the decoder
\* and encoder do
maybeTranscodeAvif(buffer, contentType, traceId, codec) ==
  IF ~isAvif(buffer, contentType) THEN Ok(buffer)
  ELSE IF codec.ok THEN Ok(Buffer(PngHead, codec.size, "encodePng"))
  ELSE Throws(InvalidAvif(traceId))

\* normalizeImageBytes(buffer, contentType, traceId)
normalizeImageBytes(buffer, contentType, traceId, codec) ==
  IF isAvif(buffer, contentType)
  THEN IF codec.ok
       THEN Ok([bytes |-> Buffer(PngHead, codec.size, "encodePng"),
                contentType |-> Chars(IMAGE_PNG)])
       ELSE Throws(InvalidAvif(traceId))
  ELSE Ok([bytes |-> buffer, contentType |-> normalizeMimeType(contentType, buffer)])


(***************************************************************************)
(* Vision-language strategy: reading the model's reply  (routes/vision.ts, *)
(* vision-language variant).  A reply text is a sequence of JSON tokens    *)
(* and stretches of other text.                                            *)
(***************************************************************************)
Tok(k) == [k |-> k]
Quoted(s) == [k |-> "string", s |-> s]
Literal(v) == [k |-> "literal", v |-> v]
Prose(w) == [k |-> "prose", w |-> w]

\* the tokens of a string value
TokensOf(v) ==
  IF "toks" \in DOMAIN v THEN v.toks
  ELSE IF "s" \in DOMAIN v /\ v.s = "" THEN <<>>
  ELSE <<Prose("text")>>

ParseFailed == [ok |-> FALSE]

RECURSIVE ParseValue(_, _), ParseMembers(_, _, _)

\* one JSON value starting at toks[i]: [ok, v, next]
ParseValue(toks, i) ==
  IF i > Len(toks) THEN ParseFailed
  ELSE IF toks[i].k = "literal" THEN [ok |-> TRUE, v |-> toks[i].v, next |-> i + 1]
  ELSE IF toks[i].k = "string" THEN [ok |-> TRUE, v |-> Str(toks[i].s), next |-> i + 1]
  ELSE IF toks[i].k = "{"
  THEN IF i + 1 <= Len(toks) /\ toks[i + 1].k = "}"
       THEN [ok |-> TRUE, v |-> Obj(<<>>), next |-> i + 2]
       ELSE ParseMembers(toks, i + 1, <<>>)
  ELSE ParseFailed

\* the members of an object from toks[i] on, up to and including its closing brace
ParseMembers(toks, i, members) ==
  IF i + 1 > Len(toks) \/ toks[i].k # "string" \/ toks[i + 1].k # ":" THEN ParseFailed
  ELSE LET value == ParseValue(toks, i + 2) IN
       IF ~value.ok \/ value.next > Len(toks) THEN ParseFailed
       ELSE LET seen == (toks[i].s :> value.v) @@ members IN
            IF toks[value.next].k = "}"
            THEN [ok |-> TRUE, v |-> Obj(seen), next |-> value.next + 1]
            ELSE IF toks[value.next].k = ","
            THEN ParseMembers(toks, value.next + 1, seen)
            ELSE ParseFailed

\* JSON.parse(text): the whole text must be one value
JSONParse(toks) ==
  LET value == ParseValue(toks, 1) IN
  IF value.ok /\ value.next = Len(toks) + 1 THEN Ok(value.v) ELSE ParseFailed

\* text.indexOf('{') and text.lastIndexOf('}'), 1-based, 0 when absent
IndexOfBrace(toks) ==
  IF \E i \in 1..Len(toks) : toks[i].k = "{"
  THEN CHOOSE i \in 1..Len(toks) :
         toks[i].k = "{" /\ \A j \in 1..(i - 1) : toks[j].k # "{"
  ELSE 0
LastIndexOfBrace(toks) ==
  IF \E i \in 1..Len(toks) : toks[i].k = "}"
  THEN CHOOSE i \in 1..Len(toks) :
         toks[i].k = "}" /\ \A j \in (i + 1)..Len(toks) : toks[j].k # "}"
  ELSE 0

\* (mutant) only the whole text is parsed
parseJsonFromTextWholeOnly(text) ==
  LET whole == JSONParse(TokensOf(text)) IN
  IF whole.ok THEN whole.v ELSE Null

\* parseJsonFromText(text): the parsed value, or null
parseJsonFromText(text) ==
  LET trimmed == TokensOf(text)
      whole == JSONParse(trimmed)
      start == IndexOfBrace(trimmed)
      end == LastIndexOfBrace(trimmed)
  IN IF whole.ok THEN whole.v
     ELSE IF start >= 1 /\ end > start
     THEN LET inner == JSONParse(SubSeq(trimmed, start, end)) IN
          IF inner.ok THEN inner.v ELSE Null
     ELSE Null

\* normalizeIsPerson(value)
normalizeIsPerson(value) ==
  IF Truthy(value) /\ TypeOf(value) = "object" /\ Get(value, "isPerson").t = "boolean"
  THEN Obj([isPerson |-> Get(value, "isPerson")])
  ELSE IF TypeOf(value) = "string" THEN parseJsonFromText(value)
  ELSE Null

\* extractIsPersonResult(result)
extractIsPersonResult(result) ==
  IF ~Truthy(result) \/ TypeOf(result) # "object" THEN Null
  ELSE IF Truthy(normalizeIsPerson(Get(result, "response")))
  THEN normalizeIsPerson(Get(result, "response"))
  ELSE IF /\ Truthy(Get(result, "result"))
          /\ TypeOf(Get(result, "result")) = "object"
          /\ Get(Get(result, "result"), "response") # Undefined
  THEN normalizeIsPerson(Get(Get(result, "result"), "response"))
  ELSE IF TypeOf(Get(result, "response")) = "string"
  THEN parseJsonFromText(Get(result, "response"))
  ELSE Null

\* (mutant) a reply without a boolean isPerson counts as "no person"
InterpretLlamaReplyLenient(result, traceId) ==
  LET parsed == extractIsPersonResult(result) IN
  IF ~Truthy(parsed) \/ Get(parsed, "isPerson").t # "boolean"
  THEN Ok(FALSE)
  ELSE Ok(Get(parsed, "isPerson").b)

\* detectPersonWithLlama after runAiModel returned `result`: the boolean, or the
\* AiRunError thrown
InterpretLlamaReply(result, traceId) ==
  LET parsed == extractIsPersonResult(result) IN
  IF ~Truthy(parsed) \/ Get(parsed, "isPerson").t # "boolean"
  THEN Throws(AiRunError("AI_RUN_RESPONSE_ERROR", "Model returned invalid JSON", 502,
                         traceId, Undefined, result, NoCause))
  ELSE Ok(Get(parsed, "isPerson").b)

IsPersonJson(b) == <<Tok("{"), Quoted("isPerson"), Tok(":"), Literal(Bool(b)), Tok("}")>>

\* replies of the vision-language model
LlamaPayloads ==
  { Obj([response |-> Text(IsPersonJson(TRUE))]),
    Obj([response |-> Text(IsPersonJson(FALSE))]),
    Obj([response |-> Obj([isPerson |-> Bool(TRUE)])]),
    Obj([response |-> Text(<<Prose("Sure thing!")>> \o IsPersonJson(TRUE)
                           \o <<Prose("done.")>>)]),
    Obj([result |-> Obj([response |-> Text(IsPersonJson(FALSE))])]),
    Obj([response |-> Text(<<Tok("{"), Quoted("isPerson"), Tok(":"), Quoted("yes"), Tok("}")>>)]),
    Obj([response |-> Text(<<Prose("no person")>>)]),
    Obj([response |-> Text(<<Literal(Bool(TRUE))>>)]),
    Obj([response |-> Text(<<Tok("{"), Quoted("a"), Tok(":"), Literal(Num(1)), Tok(","),
                             Quoted("isPerson"), Tok(":"), Literal(Bool(TRUE)), Tok("}")>>)]),
    Obj([usage |-> Num(1)]),
    Null }

(***************************************************************************)
(* Error bodies and trace ids  (utils/ai-errors, utils/trace)              *)
(***************************************************************************)
\* getTraceId(c): `uuid` is what crypto.randomUUID() gives
getTraceId(headers, uuid) ==
  IF Truthy(headers.xRequestId) THEN headers.xRequestId
  ELSE IF Truthy(headers.xTraceId) THEN headers.xTraceId
  ELSE IF Truthy(headers.cfRay) THEN headers.cfRay
  ELSE uuid

\* serializeCause(cause): a thrown string is no Error
serializeCause(cause) ==
  IF cause.cls = "string" THEN Str(cause.message)
  ELSE IF cause.cls = "TimeoutError"
  THEN Obj([name |-> Str(cause.cls), message |-> Str("AI run timed out after (timeoutMs)ms")])
  ELSE Obj([name |-> Str(cause.cls), message |-> Str(cause.message)])

\* toErrorBody(error)
toErrorBody(error) ==
  Obj([success |-> Bool(FALSE),
       error |->
         Obj([code |-> Str(error.code), message |-> Str(error.message)]
             @@ (IF Truthy(error.traceId) THEN [traceId |-> error.traceId] ELSE <<>>)
             @@ (IF TypeOf(error.durationMs) = "number"
                 THEN [durationMs |-> error.durationMs] ELSE <<>>)
             @@ (IF error.raw # Undefined THEN [raw |-> error.raw] ELSE <<>>)
             @@ (IF error.cause # NoCause
                 THEN [cause |-> serializeCause(error.cause)] ELSE <<>>))])

\* c.json(toErrorBody(err), err.status)
ErrorResponse(err) == [status |-> err.status, body |-> toErrorBody(err)]

\* c.json({ success: true, isPerson })
PersonResponse(isPerson) ==
  [status |-> 200, body |-> Obj([success |-> Bool(TRUE), isPerson |-> Bool(isPerson)])]

(***************************************************************************)
(* apiKeyAuth  (middleware/api-key)                                        *)
(***************************************************************************)
PUBLIC_PATHS == {"/docs", "/openapi.json"}
PERSON_DETECT_PATH == "/ai/vision/person-detect"

\* the path each route is registered under
PathOf(route) ==
  CASE route = "home" -> "/"
    [] route = "docs" -> "/docs"
    [] route = "openapi" -> "/openapi.json"
    [] route = "run" -> "/ai/run"
    [] OTHER -> PERSON_DETECT_PATH

\* (mutant) without a configured secret every request is let through
apiKeyAuthOpenWhenUnconfigured(path, traceId, configuredKey, providedKey) ==
  IF path \in PUBLIC_PATHS \/ ~Truthy(configuredKey) THEN [next |-> TRUE]
  ELSE IF ~Truthy(providedKey)
  THEN [next |-> FALSE,
        response |-> ErrorResponse(AiRunError("UNAUTHORIZED", "x-api-key header is required",
                                              401, traceId, Undefined, Undefined, NoCause))]
  ELSE IF providedKey # configuredKey
  THEN [next |-> FALSE,
        response |-> ErrorResponse(AiRunError("FORBIDDEN", "Invalid API key", 403, traceId,
                                              Undefined, Undefined, NoCause))]
  ELSE [next |-> TRUE]

\* apiKeyAuth(c, next): the request goes on to the handler, or is answered here
apiKeyAuth(path, traceId, configuredKey, providedKey) ==
  IF path \in PUBLIC_PATHS THEN [next |-> TRUE]
  ELSE IF ~Truthy(configuredKey)
  THEN [next |-> FALSE,
        response |-> ErrorResponse(AiRunError("UNAUTHORIZED", "API key is not configured",
                                              401, traceId, Undefined, Undefined, NoCause))]
  ELSE IF ~Truthy(providedKey)
  THEN [next |-> FALSE,
        response |-> ErrorResponse(AiRunError("UNAUTHORIZED", "x-api-key header is required",
                                              401, traceId, Undefined, Undefined, NoCause))]
  ELSE IF providedKey # configuredKey
  THEN [next |-> FALSE,
        response |-> ErrorResponse(AiRunError("FORBIDDEN", "Invalid API key", 403, traceId,
                                              Undefined, Undefined, NoCause))]
  ELSE [next |-> TRUE]

(***************************************************************************)
(* Person detection: request parsing  (routes/vision.ts and its            *)
(* vision-language variant)                                                *)
(***************************************************************************)
DEFAULT_THRESHOLD == 70
DEFAULT_MIN_AREA_RATIO == 20

\* a string that reads as the number n
NumStr(n) == [t |-> "string", num |-> n]

\* Number(value) of a string
ToNumber(value) ==
  IF "num" \in DOMAIN value THEN Num(value.num)
  ELSE IF "chars" \in DOMAIN value /\ Trim(value.chars) = <<>> THEN Num(0)
  ELSE NaN

\* value.trim() !== ''
NotBlank(value) == "num" \in DOMAIN value \/ Trim(value.chars) # <<>>

\* parseThreshold(value)
parseThreshold(value) ==
  IF TypeOf(value) = "number" /\ NumberIsFinite(value) THEN value
  ELSE IF TypeOf(value) = "string" /\ NotBlank(value) /\ NumberIsFinite(ToNumber(value))
  THEN ToNumber(value)
  ELSE Undefined

\* parseRatio(value)
parseRatio(value) ==
  LET parsed == parseThreshold(value) IN
  IF TypeOf(parsed) = "number" /\ NumberIsFinite(parsed) /\ parsed.n >= 0 /\ parsed.n <= 100
  THEN parsed ELSE Undefined

InvalidInput(message, status, traceId, cause) ==
  AiRunError("INVALID_INPUT", message, status, traceId, Undefined, Undefined, cause)

\* the strings z.string().url() accepts, of those sent
ValidUrls == {"https://img.example/a.avif"}

\* a number z.number().min(0).max(1).optional() accepts
OptionalUnitNumber(v) == v = Undefined \/ (v.t = "number" /\ v.n >= 0 /\ v.n <= 100)

\* PersonDetectRequestSchema.safeParse(jsonBody).success, per route
SchemaAccepts(route, jsonBody) ==
  /\ jsonBody.t = "object"
  /\ Get(jsonBody, "url").t = "string"
  /\ Get(jsonBody, "url").s \in ValidUrls
  /\ route = "detr" =>
       /\ OptionalUnitNumber(Get(jsonBody, "threshold"))
       /\ OptionalUnitNumber(Get(jsonBody, "minAreaRatio"))

\* the catch block of personDetectHandler
HandlerCatch(error, traceId) ==
  IF error.cls = "AiRunError" THEN ErrorResponse(error)
  ELSE ErrorResponse(AiRunError("AI_RUN_EXCEPTION", "Person detection failed", 500,
                                traceId, Undefined, Undefined, error))

\* the catch block of aiRunHandler
AiRunCatch(error, traceId) ==
  IF error.cls = "AiRunError" THEN ErrorResponse(error)
  ELSE ErrorResponse(AiRunError("AI_RUN_EXCEPTION", "AI run threw an unexpected error",
                                500, traceId, Undefined, Undefined, error))

\* what each strategy does to the image before the model sees it
PrepareImage(route, buffer, contentType, traceId, codec) ==
  IF route = "detr"
  THEN LET bytes == maybeTranscodeAvif(buffer, contentType, traceId, codec) IN
       IF bytes.ok THEN Ok([bytes |-> bytes.v, contentType |-> Undefined]) ELSE bytes
  ELSE normalizeImageBytes(buffer, contentType, traceId, codec)

\* what the handler answers once runAiModel is through with `out`
Answer(route, out, threshold, minAreaRatio, traceId) ==
  IF route = "run"
  THEN \* aiRunHandler: the result as JSON, or as the body of an octet-stream response
       IF out.kind = "error" THEN AiRunCatch(out.e, traceId)
       ELSE [status |-> 200, body |-> out.v]
  ELSE IF out.kind = "error" THEN HandlerCatch(out.e, traceId)
  ELSE IF route = "detr"
  THEN PersonResponse(hasPerson(out.v, Coalesce(threshold, Num(DEFAULT_THRESHOLD)).n,
                                Coalesce(minAreaRatio, Num(DEFAULT_MIN_AREA_RATIO)).n))
  ELSE LET reply == InterpretLlamaReply(out.v, traceId) IN
       IF reply.ok THEN PersonResponse(reply.v) ELSE HandlerCatch(reply.e, traceId)

(***************************************************************************)
(* Person detection: the requests sent                                     *)
(***************************************************************************)
TraceHeaders ==
  { [xRequestId |-> Str("t-req"), xTraceId |-> Str("t-trace"), cfRay |-> Undefined],
    [xRequestId |-> Str(""), xTraceId |-> Undefined, cfRay |-> Str("ray-1")],
    [xRequestId |-> Str(""), xTraceId |-> Undefined, cfRay |-> Undefined] }
RandomUUID == Str("uuid-1")

ApiKeys ==
  [configured : {Undefined, Str("k")}, provided : {Undefined, Str(""), Str("k"), Str("x")}]

\* headers.get(name) of a header that is not there
NoHeader == Null

\* images as they are uploaded or served: first bytes, byte length, declared type
\* (NoHeader: none declared)
SampleImages ==
  LET Image(head, size, declared) == [head |-> head, size |-> size, declared |-> declared]
      AvifHead ==
        <<0, 0, 0, 28, 102, 116, 121, 112, 97, 118, 105, 102, 0, 0, 0, 0, 97, 118, 105,
          102, 109, 105, 102, 49, 109, 105, 97, 102, 46, 46, 46, 46, 46, 46, 46, 46>>
      AvisLastSlotHead ==
        <<0, 0, 0, 32, 102, 116, 121, 112, 109, 105, 102, 49, 0, 0, 0, 0, 109, 105,
          102, 49, 109, 105, 97, 102, 77, 65, 49, 66, 97, 118, 105, 115, 46, 46, 46,
          46>>
      AvifBeyondSliceHead ==
        <<0, 0, 0, 36, 102, 116, 121, 112, 109, 105, 102, 49, 0, 0, 0, 0, 109, 105,
          102, 49, 109, 105, 97, 102, 77, 65, 49, 66, 104, 101, 105, 99, 97, 118, 105,
          102>>
      HeicHead ==
        <<0, 0, 0, 24, 102, 116, 121, 112, 104, 101, 105, 99, 0, 0, 0, 0, 104, 101,
          105, 99, 109, 105, 102, 49, 46, 46, 46, 46, 46, 46, 46, 46, 46, 46, 46, 46>>
      PngShortHead ==
        <<137, 80, 78, 71, 13, 10, 26, 10>>
      JpegHead ==
        <<255, 216, 255, 224, 0, 16, 74, 70, 73, 70, 0, 1>>
      GifHead ==
        <<71, 73, 70, 56, 57, 97, 1, 0, 1, 0, 128, 0>>
      WebpHead ==
        <<82, 73, 70, 70, 36, 0, 0, 0, 87, 69, 66, 80>>
      WaveHead ==
        <<82, 73, 70, 70, 36, 0, 0, 0, 87, 65, 86, 69>>
      TextHead ==
        <<60, 33, 100, 111, 99, 116, 121, 112, 101, 32, 104, 116, 109, 108, 62>>
      CtAvif ==
        Chars(<<"i", "m", "a", "g", "e", "/", "a", "v", "i", "f">>)
      CtAvifUpper ==
        Chars(<<"I", "M", "A", "G", "E", "/", "A", "V", "I", "F">>)
      CtPng ==
        Chars(<<"i", "m", "a", "g", "e", "/", "p", "n", "g">>)
      CtJpegParams ==
        Chars(<<"I", "m", "a", "g", "e", "/", "J", "P", "E", "G", ";", " ", "q", "=",
          "1">>)
      CtGifSpaced ==
        Chars(<<"i", "m", "a", "g", "e", "/", "g", "i", "f", " ", ";", "q", "=", "1">>)
      CtHtml ==
        Chars(<<"t", "e", "x", "t", "/", "h", "t", "m", "l">>)
      CtBareImage ==
        Chars(<<"i", "m", "a", "g", "e", "/">>)
  IN { Image(AvifHead, 36, CtAvif),
       Image(AvifHead, MAX_IMAGE_BYTES, NoHeader),
       Image(AvisLastSlotHead, 36, CtPng),
       Image(TextHead, 15, CtAvifUpper),
       Image(AvifBeyondSliceHead, 36, NoHeader),
       Image(HeicHead, 36, CtHtml),
       Image(PngHead, MAX_IMAGE_BYTES, CtPng),
       Image(PngHead, MAX_IMAGE_BYTES + 1, CtPng),
       Image(PngShortHead, 8, CtGifSpaced),
       Image(JpegHead, 12, CtJpegParams),
       Image(GifHead, 12, CtHtml),
       Image(WebpHead, 12, NoHeader),
       Image(WaveHead, 12, CtBareImage) }

\* form fields threshold and minAreaRatio, as sent
FormFields ==
  { [threshold |-> Undefined, minAreaRatio |-> Undefined],
    [threshold |-> NumStr(150), minAreaRatio |-> NumStr(150)],
    [threshold |-> Chars(<<"a", "b", "c">>), minAreaRatio |-> Chars(<<" ", " ">>)] }

NotAFile == [kind |-> "string"]
FileOf(sample) ==
  [kind |-> "file", head |-> sample.head, size |-> sample.size,
   type |-> IF sample.declared = NoHeader THEN Chars(<<>>) ELSE sample.declared]

Unparsable == [t |-> "unparsable"]
JsonBodies ==
  LET SampleUrl == Str("https://img.example/a.avif") IN
  { Unparsable,
    SampleUrl,
    Obj([url |-> Str("a.avif")]),
    Obj([threshold |-> Num(90)]),
    Obj([url |-> SampleUrl]),
    Obj([url |-> SampleUrl, threshold |-> Num(90), minAreaRatio |-> Num(10)]),
    Obj([url |-> SampleUrl, threshold |-> Num(150)]) }

\* the requests: a multipart upload, a multipart body that parseBody cannot read, a
\* JSON body, or another content type
RequestBodies ==
  [mode : {"multipart"}, file : {NotAFile} \cup {FileOf(i) : i \in SampleImages},
   fields : FormFields]
  \cup [mode : {"json"}, json : JsonBodies]
  \cup {[mode |-> "unsupported"], [mode |-> "malformed"]}

\* what is kept of the request's parameters
ParametersOf(route, body) ==
  IF route = "detr" /\ body.mode = "multipart"
  THEN [threshold |-> parseThreshold(body.fields.threshold),
        minAreaRatio |-> parseRatio(body.fields.minAreaRatio)]
  ELSE IF route = "detr" /\ body.mode = "json" /\ SchemaAccepts(route, body.json)
  THEN [threshold |-> Get(body.json, "threshold"),
        minAreaRatio |-> Get(body.json, "minAreaRatio")]
  ELSE [threshold |-> Undefined, minAreaRatio |-> Undefined]

\* content-length headers of the fetched response
ContentLengths ==
  {NoHeader, NumStr(MAX_IMAGE_BYTES), NumStr(MAX_IMAGE_BYTES + 1),
   Chars(<<"a", "b", "c">>)}

\* what the object-detection model and the vision-language model answer
DetrPayloads ==
  { Undefined, Arr(<<>>),
    Arr(<<Detection(Str("person"), Num(90), CornerBox(10, 10, 50, 50))>>),
    Arr(<<Detection(Str("person"), Num(80), CornerBox(0, 0, 100, 100))>>),
    Obj([success |-> Bool(FALSE)]),
    Obj([response |-> Str("maybe")]) }
ModelOutcomes(route) ==
  {Fulfilled(v) : v \in IF route = "llama" THEN LlamaPayloads ELSE DetrPayloads}
  \cup {Rejected(PlainError), Rejected(ThrownString)}

(***************************************************************************)
(* Person detection: the handler, step by step                             *)
(***************************************************************************)
\* the handler's catch block answers `error`
HandlerFails(error, traceId) ==
  /\ response' = Append(response, HandlerCatch(error, traceId))
  /\ pc' = "done"

\* the image as the handler holds it, and what became of decodeAvif and encodePng
Received(buffer, contentType, codec) ==
  [buffer |-> buffer, contentType |-> contentType, codec |-> codec]

\* whether the codec was called for the image, and how that ended
CodecUse(prepared) ==
  IF ~prepared.ok THEN "failed"
  ELSE IF prepared.v.bytes.origin = "encodePng" THEN "encoded"
  ELSE "unused"

\* the image is prepared and handed to runAiModel
DetectPerson(route, traceId, buffer, contentType, codec, thrown) ==
  LET prepared == PrepareImage(route, buffer, contentType, traceId, codec) IN
  /\ image' = Received(buffer, contentType, CodecUse(prepared))
  /\ IF ~prepared.ok
     THEN /\ HandlerFails(prepared.e, traceId)
          /\ UNCHANGED <<timeoutVars, runVars, modelInput>>
     ELSE /\ modelInput' = Append(modelInput, prepared.v)
          /\ RunAiModel(NoOptions, traceId, thrown)
          /\ IF run'.out = Pending
             THEN /\ pc' = "running"
                  /\ response' = response
             ELSE HandlerFails(run'.out.e, traceId)

\* personDetectHandler up to its first wait on the network or the model
PersonDetectHandler(route, traceId, body, codec, thrown) ==
  IF body.mode = "malformed"
  THEN \* c.req.parseBody() rejects
       /\ HandlerFails([cls |-> "TypeError", message |-> "Failed to parse body as FormData."],
                       traceId)
       /\ UNCHANGED <<timeoutVars, runVars, modelInput, fetch, image>>
  ELSE IF body.mode = "multipart"
  THEN IF body.file.kind # "file"
       THEN /\ HandlerFails(InvalidInput("file is required", 400, traceId, NoCause),
                            traceId)
            /\ UNCHANGED <<timeoutVars, runVars, modelInput, fetch, image>>
       ELSE IF body.file.size > MAX_IMAGE_BYTES
       THEN /\ HandlerFails(InvalidInput("Image is too large", 400, traceId, NoCause),
                            traceId)
            /\ image' = Received(Buffer(body.file.head, body.file.size, "upload"),
                                 body.file.type, "unused")
            /\ UNCHANGED <<timeoutVars, runVars, modelInput, fetch>>
       ELSE /\ DetectPerson(route, traceId,
                            Buffer(body.file.head, body.file.size, "upload"),
                            body.file.type, codec, thrown)
            /\ UNCHANGED fetch
  ELSE IF body.mode = "unsupported"
  THEN /\ HandlerFails(InvalidInput("Unsupported content-type", 400, traceId, NoCause),
                       traceId)
       /\ UNCHANGED <<timeoutVars, runVars, modelInput, fetch, image>>
  ELSE IF body.json = Unparsable
  THEN /\ HandlerFails(InvalidInput("Request body must be valid JSON", 400, traceId,
                                    [cls |-> "SyntaxError", message |-> "Unexpected token"]),
                       traceId)
       /\ UNCHANGED <<timeoutVars, runVars, modelInput, fetch, image>>
  ELSE IF ~SchemaAccepts(route, body.json)
  THEN \* the route's validator (defaultHook) or the handler's own safeParse
       /\ \E message \in {"Request validation failed", "Request body must be valid JSON"} :
            HandlerFails(InvalidInput(message, 400, traceId,
                                      [cls |-> "ZodError", message |-> "invalid"]), traceId)
       /\ UNCHANGED <<timeoutVars, runVars, modelInput, fetch, image>>
  ELSE \* fetchImageBuffer: the abort timer is armed and fetch is called
       /\ fetch' = [st |-> "pending", timer |-> "armed",
                    deadline |-> now + FETCH_TIMEOUT_MS, calls |-> fetch.calls + 1,
                    response |-> NoResponse]
       /\ pc' = "fetching"
       /\ UNCHANGED <<timeoutVars, runVars, modelInput, response, image>>

\* aiRunHandler up to its wait on the model; a body the route's validator does not
\* accept is answered by defaultHook
AiRunHandler(traceId, body, thrown) ==
  \* AiRunRequestSchema: model is a non-empty string (options is a record or absent
  \* in every body sent here)
  IF ~(body.model.t = "string" /\ body.model.s # "")
  THEN /\ response' = Append(response,
                             ErrorResponse(InvalidInput("Request validation failed", 400,
                                                        traceId,
                                                        [cls |-> "ZodError",
                                                         message |-> "invalid"])))
       /\ pc' = "done"
       /\ UNCHANGED <<timeoutVars, runVars, modelInput, fetch, image>>
  ELSE /\ RunAiModel(body.options, traceId, thrown)
       /\ IF run'.out = Pending
          THEN /\ pc' = "running"
               /\ response' = response
          ELSE /\ pc' = "done"
               /\ response' = Append(response, AiRunCatch(run'.out.e, traceId))
       /\ UNCHANGED <<modelInput, fetch, image>>

\* the Worker serves one request: the handlers and the middleware registered for its
\* path run in the order of their registration
Serve(route, headers, keys, codec, thrown, body) ==
  LET traceId == getTraceId(headers, RandomUUID)
      \* the routes registered before app.use('*', apiKeyAuth): a handler that
      \* answers without calling next() ends the chain, and the middleware
      \* registered after it does not run
      BeforeMiddleware == route \in {"home", "docs"}
      auth == apiKeyAuth(PathOf(route), traceId, keys.configured, keys.provided)
      parameters == ParametersOf(route, body)
      sent == IF route # "detr"
              THEN [threshold |-> Undefined, minAreaRatio |-> Undefined]
              ELSE IF body.mode = "multipart" THEN body.fields
              ELSE IF body.mode = "json"
              THEN [threshold |-> Get(body.json, "threshold"),
                    minAreaRatio |-> Get(body.json, "minAreaRatio")]
              ELSE [threshold |-> Undefined, minAreaRatio |-> Undefined]
  IN /\ req' = [route |-> route, path |-> PathOf(route), mode |-> body.mode,
                headers |-> headers, keys |-> keys, traceId |-> traceId,
                middleware |-> ~BeforeMiddleware,
                authorized |-> ~BeforeMiddleware /\ auth.next,
                handled |-> BeforeMiddleware \/ auth.next,
                sent |-> sent,
                threshold |-> parameters.threshold,
                minAreaRatio |-> parameters.minAreaRatio]
     /\ IF BeforeMiddleware \/ (route = "openapi" /\ auth.next)
        THEN \* the home page, the documentation page, the OpenAPI document
             /\ response' = Append(response,
                                   [status |-> 200,
                                    body |-> Obj([success |-> Bool(TRUE),
                                                  page |-> Str(route)])])
             /\ pc' = "done"
             /\ UNCHANGED <<timeoutVars, runVars, modelInput, fetch, image>>
        ELSE IF ~auth.next
        THEN /\ response' = Append(response, auth.response)
             /\ pc' = "done"
             /\ UNCHANGED <<timeoutVars, runVars, modelInput, fetch, image>>
        ELSE IF route = "run" THEN AiRunHandler(traceId, body, thrown)
        ELSE PersonDetectHandler(route, traceId, body, codec, thrown)

\* a request arrives
ReqStart ==
  /\ pc = "idle"
  /\ \E route \in {"home", "docs", "openapi", "run", "detr", "llama"},
        headers \in TraceHeaders, keys \in ApiKeys, codec \in CodecOutcomes,
        thrown \in {NoCause, PlainError} :
     \E body \in IF route \in {"detr", "llama"} THEN RequestBodies
                 ELSE IF route = "run"
                 THEN \* the bodies sent to the model-run endpoint: {model, options}
                      [mode : {"run"}, model : {Str("m"), Undefined},
                       options : {NoOptions, ViaGateway,
                                  [timeoutMs |-> Num(1), traceId |-> Str("t-body"),
                                   gateway |-> Undefined],
                                  [timeoutMs |-> Num(0), traceId |-> Str(""),
                                   gateway |-> Undefined]}]
                 ELSE {[mode |-> "none"]} :
       Serve(route, headers, keys, codec, thrown, body)
  /\ AiRunCalled
  /\ UNCHANGED <<now, fnVars, parked>>

\* (mutant) fetchImageBuffer without its finally: the abort timer is left armed
FetchEndsTimerLeft(f, st) == [f EXCEPT !.st = st]

\* fetchImageBuffer's finally: clearTimeout
FetchEnds(f, st) ==
  [f EXCEPT !.st = st, !.timer = IF f.timer = "armed" THEN "cleared" ELSE @]

\* the response headers arrive
FetchResponse ==
  /\ pc = "fetching"
  /\ \E ok \in BOOLEAN, contentLength \in ContentLengths :
       LET arrived == [fetch EXCEPT !.response = [arrived |-> TRUE, ok |-> ok,
                                                  contentLength |-> contentLength]]
       IN IF ~ok
          THEN /\ HandlerFails(InvalidInput("Failed to fetch image: (status)", 502,
                                            req.traceId, NoCause), req.traceId)
               /\ fetch' = FetchEnds(arrived, "failed")
          ELSE IF /\ Truthy(contentLength)
                  /\ ToNumber(contentLength).t = "number"
                  /\ ToNumber(contentLength).n > MAX_IMAGE_BYTES
          THEN /\ HandlerFails(InvalidInput("Image is too large", 400, req.traceId,
                                            NoCause), req.traceId)
               /\ fetch' = FetchEnds(arrived, "failed")
          ELSE /\ fetch' = [arrived EXCEPT !.st = "reading"]
               /\ pc' = "reading"
               /\ response' = response
  /\ UNCHANGED <<now, timeoutVars, runVars, fnVars, req, modelInput, image,
               aiGatewayLogId, parked>>

\* the response body has been read
FetchBody ==
  /\ pc = "reading"
  /\ \E served \in SampleImages, codec \in CodecOutcomes, thrown \in {NoCause, PlainError} :
       IF served.size > MAX_IMAGE_BYTES
       THEN /\ HandlerFails(InvalidInput("Image is too large", 400, req.traceId, NoCause),
                            req.traceId)
            /\ fetch' = FetchEnds(fetch, "failed")
            /\ image' = Received(Buffer(served.head, served.size, "fetch"),
                                 Coalesce(served.declared, Undefined), "unused")
            /\ UNCHANGED <<timeoutVars, runVars, modelInput>>
       ELSE /\ fetch' = FetchEnds(fetch, "done")
            /\ DetectPerson(req.route, req.traceId,
                            Buffer(served.head, served.size, "fetch"),
                            Coalesce(served.declared, Undefined), codec, thrown)
  /\ AiRunCalled
  /\ UNCHANGED <<now, fnVars, req, parked>>

\* fetch, or the reading of the body, fails
FetchFails ==
  /\ pc \in {"fetching", "reading"}
  /\ HandlerFails(AiRunError("AI_RUN_EXCEPTION", "Failed to fetch image", 502, req.traceId,
                             Undefined, Undefined,
                             [cls |-> "TypeError", message |-> "fetch failed"]),
                  req.traceId)
  /\ fetch' = FetchEnds(fetch, "failed")
  /\ UNCHANGED <<now, timeoutVars, runVars, fnVars, req, modelInput, image,
               aiGatewayLogId, parked>>

\* (mutant) an abort during the reading of the body is not recognised as one
FetchDeadlineUnrecognisedWhileReading ==
  /\ pc \in {"fetching", "reading"}
  /\ fetch.timer = "armed"
  /\ now >= fetch.deadline
  /\ HandlerFails(IF pc = "fetching"
                  THEN AiRunError("AI_RUN_TIMEOUT", "Image fetch timed out", 504,
                                  req.traceId, Undefined, Undefined,
                                  [cls |-> "DOMException",
                                   message |-> "The operation was aborted"])
                  ELSE AiRunError("AI_RUN_EXCEPTION", "Failed to fetch image", 502,
                                  req.traceId, Undefined, Undefined,
                                  [cls |-> "DOMException",
                                   message |-> "The operation was aborted"]),
                  req.traceId)
  /\ fetch' = [fetch EXCEPT !.st = "failed", !.timer = "fired"]
  /\ UNCHANGED <<now, timeoutVars, runVars, fnVars, req, modelInput, image,
               aiGatewayLogId, parked>>

\* the abort timer runs: controller.abort() makes the pending fetch or read reject
\* with an AbortError
FetchDeadline ==
  /\ pc \in {"fetching", "reading"}
  /\ fetch.timer = "armed"
  /\ now >= fetch.deadline
  /\ HandlerFails(AiRunError("AI_RUN_TIMEOUT", "Image fetch timed out", 504, req.traceId,
                             Undefined, Undefined,
                             [cls |-> "DOMException", message |-> "The operation was aborted"]),
                  req.traceId)
  /\ fetch' = [fetch EXCEPT !.st = "failed", !.timer = "fired"]
  /\ UNCHANGED <<now, timeoutVars, runVars, fnVars, req, modelInput, image,
               aiGatewayLogId, parked>>

\* the handler's continuation when runAiModel has just finished
HandlerResumes ==
  IF run.out = Pending /\ run'.out # Pending
  THEN /\ pc' = "done"
       /\ response' = Append(response, Answer(req.route, run'.out, req.threshold,
                                              req.minAreaRatio, req.traceId))
  ELSE UNCHANGED <<pc, response>>

\* the model service settles the call
ReqModelSettle ==
  /\ pc \in {"running", "done"}
  /\ \E o \in ModelOutcomes(req.route) : OperationSettles(o) /\ AiRunReturns(o)
  /\ RunResumes
  /\ HandlerResumes
  /\ UNCHANGED <<now, runCalls, fnVars, req, fetch, modelInput, image, parked>>

\* the timer of withTimeout runs
ReqModelFire ==
  /\ pc = "running"
  /\ TimerFires
  /\ UNCHANGED aiGatewayLogId
  /\ RunResumes
  /\ HandlerResumes
  /\ UNCHANGED <<now, runCalls, fnVars, req, fetch, modelInput, image, parked>>

RequestInit ==
  /\ now = 0
  /\ pc = "idle"
  /\ promise = NoPromise
  /\ settledAt = -1
  /\ timeoutId = NoTimer
  /\ timersArmed = 0
  /\ guarded = NoPromise
  /\ settlements = <<>>
  /\ run = NoRun
  /\ runCalls = 0
  /\ logs = <<>>
  /\ fnIn = NoArguments
  /\ fnOut = NoResult
  /\ NoRequestYet

RequestNext ==
  \/ ReqStart
  \/ FetchResponse
  \/ FetchBody
  \/ FetchFails
  \/ FetchDeadline
  \/ ReqModelSettle
  \/ ReqModelFire
  \/ Tick

SpecRequest == RequestInit /\ [][RequestNext]_vars

(***************************************************************************)
(* Two requests in one isolate                                             *)
(***************************************************************************)
\* what belongs to the request that is running: the locals of its handler, of
\* runAiModel and of withTimeout, its timers, its log records, its response
Frame ==
  [pc |-> pc, promise |-> promise, settledAt |-> settledAt, timeoutId |-> timeoutId,
   timersArmed |-> timersArmed, guarded |-> guarded, settlements |-> settlements,
   run |-> run, runCalls |-> runCalls, logs |-> logs, req |-> req, fetch |-> fetch,
   image |-> image, modelInput |-> modelInput, response |-> response]

\* the event loop turns to the other request: each task (a handler up to its await,
\* a settlement, a timer callback) runs to completion, so the requests interleave
\* between tasks.  The clock and the AI binding are the isolate's and stay.
Switch ==
  /\ parked # Frame
  /\ parked' = Frame
  /\ pc' = parked.pc
  /\ promise' = parked.promise
  /\ settledAt' = parked.settledAt
  /\ timeoutId' = parked.timeoutId
  /\ timersArmed' = parked.timersArmed
  /\ guarded' = parked.guarded
  /\ settlements' = parked.settlements
  /\ run' = parked.run
  /\ runCalls' = parked.runCalls
  /\ logs' = parked.logs
  /\ req' = parked.req
  /\ fetch' = parked.fetch
  /\ image' = parked.image
  /\ modelInput' = parked.modelInput
  /\ response' = parked.response
  /\ UNCHANGED <<now, fnVars, aiGatewayLogId>>

\* one of two requests arrives, with a valid key and a trace id of its own.  The
\* first to arrive is a model run, through the AI Gateway or not, with an
\* x-request-id header; the second is a person detection on an uploaded PNG, which
\* gets a UUID
PairStart ==
  /\ pc = "idle"
  /\ \E route \in {r \in {"run", "detr"} : (r = "run") = (parked.req = NoRequest)},
        headers \in {h \in TraceHeaders :
                       /\ h.cfRay = Undefined
                       /\ Truthy(h.xRequestId) = (parked.req = NoRequest)} :
     \E body \in IF route = "run"
                 THEN [mode : {"run"}, model : {Str("m")}, options : {NoOptions, ViaGateway}]
                 ELSE {[mode |-> "multipart",
                        file |-> FileOf([head |-> PngHead, size |-> 36,
                                         declared |-> Chars(IMAGE_PNG)]),
                        fields |-> [threshold |-> Undefined, minAreaRatio |-> Undefined]]} :
       Serve(route, headers, [configured |-> Str("k"), provided |-> Str("k")],
             [ok |-> TRUE, size |-> 36], NoCause, body)
  /\ AiRunCalled
  /\ UNCHANGED <<now, fnVars, parked>>

PairNext ==
  \/ PairStart
  \/ Switch
  \/ ReqModelSettle
  \/ ReqModelFire
  \/ Tick

SpecPair == RequestInit /\ [][PairNext]_vars

(***************************************************************************)
(* Properties of the person-detection requests                             *)
(***************************************************************************)
\* the failing responses sent
FailureResponses ==
  {response[i] : i \in {j \in 1..Len(response) :
                          Get(response[j].body, "success") = Bool(FALSE)}}

\* the code and the message of a failing response
CodeOf(r) == Get(Get(r.body, "error"), "code").s
MessageOfResponse(r) == Get(Get(r.body, "error"), "message").s

\* C5: every AiRunError produced in a request carries the HTTP status fixed for its
\* code (INVALID_INPUT 400, UNAUTHORIZED 401, FORBIDDEN 403, AI_RUN_TIMEOUT 504,
\* AI_RUN_EXCEPTION 500, AI_RUN_RESPONSE_ERROR 502), and the failing response is
\* sent with that status.
C5_StatusFixedByCode ==
  LET FixedStatus(code) ==
        CASE code = "INVALID_INPUT" -> 400
          [] code = "UNAUTHORIZED" -> 401
          [] code = "FORBIDDEN" -> 403
          [] code = "AI_RUN_TIMEOUT" -> 504
          [] code = "AI_RUN_EXCEPTION" -> 500
          [] code = "AI_RUN_RESPONSE_ERROR" -> 502
  IN /\ \A r \in FailureResponses : r.status = FixedStatus(CodeOf(r))
     /\ (run.out.kind = "error" /\ run.out.e.cls = "AiRunError") =>
          run.out.e.status = FixedStatus(run.out.e.code)

\* C6: every image handed to the model service is at most MAX_IMAGE_BYTES long, in
\* URL mode and in upload mode, transcoded or not.
C6_ModelInputWithinCap ==
  \A i \in 1..Len(modelInput) : modelInput[i].bytes.size <= MAX_IMAGE_BYTES

\* the request was answered INVALID_INPUT (400) and the model service was not invoked
RejectedAsInvalidInput ==
  /\ Len(response) = 1
  /\ response[1].status = 400
  /\ response[1] \in FailureResponses
  /\ CodeOf(response[1]) = "INVALID_INPUT"
  /\ runCalls = 0
  /\ modelInput = <<>>

\* the content-length the fetched response declares is the number n
DeclaresLength(n) ==
  /\ fetch.response.arrived
  /\ "num" \in DOMAIN fetch.response.contentLength
  /\ fetch.response.contentLength.num = n

\* C7: an upload or a fetched body longer than the cap, and a fetched response that
\* declares a content-length above the cap, are each rejected with INVALID_INPUT
\* (400) without the model service being invoked; a length equal to the cap is not
\* rejected for its size.
C7_OversizeRejectedBeforeModel ==
  /\ (image # NoImage /\ image.buffer.size > MAX_IMAGE_BYTES) => RejectedAsInvalidInput
  /\ DeclaresLength(MAX_IMAGE_BYTES + 1) => RejectedAsInvalidInput
  /\ (image # NoImage /\ image.buffer.size = MAX_IMAGE_BYTES) =>
       \A r \in FailureResponses : MessageOfResponse(r) # "Image is too large"
  /\ (DeclaresLength(MAX_IMAGE_BYTES) /\ fetch.response.ok) =>
       \A r \in FailureResponses :
         MessageOfResponse(r) = "Image is too large" =>
           image # NoImage /\ image.buffer.size > MAX_IMAGE_BYTES

\* the claim's criterion for AVIF: a declared type containing image/avif, or an ftyp
\* box at bytes 4-7 whose major brand (bytes 8-11) or a compatible brand (from byte
\* 16 on), wholly inside the first 32 bytes, is avif or avis
ClaimsAvif(buffer, contentType) ==
  \/ /\ contentType # Undefined
     /\ Includes(ToLowerCase(contentType.chars), IMAGE_AVIF)
  \/ /\ buffer.size >= 12
     /\ <<ByteAt(buffer, 4), ByteAt(buffer, 5), ByteAt(buffer, 6), ByteAt(buffer, 7)>>
          = <<102, 116, 121, 112>>
     /\ \E at \in {8, 16, 20, 24, 28} :
          /\ at + 4 <= 32
          /\ at + 4 <= buffer.size
          /\ <<ByteAt(buffer, at), ByteAt(buffer, at + 1), ByteAt(buffer, at + 2),
               ByteAt(buffer, at + 3)>> \in {BRAND_AVIF, BRAND_AVIS}

\* C8: an accepted image recognised as AVIF goes through decodeAvif and encodePng
\* before the model is invoked: what the model gets is encodePng's output, never the
\* bytes received; when the codec fails the request ends with INVALID_INPUT (400) and
\* the model is not invoked.
C8_AvifTranscodedBeforeModel ==
  ( /\ image # NoImage
    /\ image.buffer.size <= MAX_IMAGE_BYTES
    /\ ClaimsAvif(image.buffer, image.contentType) ) =>
    /\ image.codec \in {"encoded", "failed"}
    /\ image.codec = "encoded" =>
         /\ runCalls = 1
         /\ Len(modelInput) = 1
         /\ modelInput[1].bytes.origin = "encodePng"
         /\ modelInput[1].bytes.head = PngHead
         /\ modelInput[1].bytes # image.buffer
    /\ image.codec = "failed" =>
         /\ pc = "done"
         /\ RejectedAsInvalidInput

\* an image declared image/png whose ftyp box lists the brand avis was re-encoded,
\* and the model was called with the PNG
C8_Witness ==
  /\ image # NoImage
  /\ Truthy(image.contentType)
  /\ ~Includes(ToLowerCase(image.contentType.chars), IMAGE_AVIF)
  /\ <<ByteAt(image.buffer, 28), ByteAt(image.buffer, 29), ByteAt(image.buffer, 30),
       ByteAt(image.buffer, 31)>> = BRAND_AVIS
  /\ image.codec = "encoded"
  /\ runCalls = 1
  /\ modelInput[1].bytes.origin = "encodePng"

\* C9: on the vision-language route the MIME type of the model input is non-empty
\* and begins with "image/": image/png for a transcoded AVIF, else the declared type
\* (its part before ';', lower-cased) when that begins with image/, else the type
\* sniffed from the magic bytes, else image/png.
C9_MimeIsImageType ==
  (req.route = "llama" /\ modelInput # <<>>) =>
    LET mime == modelInput[1].contentType
        declared ==
          IF Truthy(image.contentType)
          THEN ToLowerCase(Trim(SplitFirst(image.contentType.chars, ";")))
          ELSE <<>>
        sniffed == detectMimeType(image.buffer)
    IN /\ Len(modelInput) = 1
       /\ mime.t = "string"
       /\ mime.chars # <<>>
       /\ StartsWith(mime.chars, IMAGE_SLASH)
       /\ mime = IF image.codec = "encoded" THEN Chars(IMAGE_PNG)
                 ELSE IF StartsWith(declared, IMAGE_SLASH) THEN Chars(declared)
                 ELSE IF sniffed # Undefined THEN sniffed
                 ELSE Chars(IMAGE_PNG)

\* a GIF served as text/html reached the vision-language model as image/gif
C9_Witness ==
  /\ req.route = "llama"
  /\ image # NoImage
  /\ Truthy(image.contentType)
  /\ ~StartsWith(ToLowerCase(image.contentType.chars), IMAGE_SLASH)
  /\ image.codec = "unused"
  /\ detectMimeType(image.buffer) = Chars(IMAGE_GIF)
  /\ runCalls = 1
  /\ modelInput[1].contentType = Chars(IMAGE_GIF)

\* the request was answered with one success body {success: true, isPerson}
AnsweredIsPerson ==
  /\ Len(response) = 1
  /\ response[1].status = 200
  /\ Get(response[1].body, "isPerson").t = "boolean"

\* C12: on the bounding-box route, a reply of the model service that is not an array
\* of detection records ends the request with AI_RUN_RESPONSE_ERROR (502), never
\* with a success body.
C12_UnparsableDetectionsAreResponseError ==
  ( /\ req.route = "detr"
    /\ runCalls = 1
    /\ guarded.kind = "value"
    /\ guarded.v.t # "array" ) =>
    /\ Len(response) = 1
    /\ response[1].status = 502
    /\ response[1] \in FailureResponses
    /\ CodeOf(response[1]) = "AI_RUN_RESPONSE_ERROR"

\* C13: the threshold and the minAreaRatio with which the detections are evaluated
\* lie in [0, 1], for a JSON body and for a multipart form alike; a value that was
\* not sent is replaced by the default, 0.7 and 0.2.
C13_ParametersWithinUnitInterval ==
  (req.route = "detr" /\ AnsweredIsPerson) =>
    LET threshold == Coalesce(req.threshold, Num(DEFAULT_THRESHOLD))
        minAreaRatio == Coalesce(req.minAreaRatio, Num(DEFAULT_MIN_AREA_RATIO))
    IN /\ threshold.t = "number" /\ threshold.n >= 0 /\ threshold.n <= 100
       /\ minAreaRatio.t = "number" /\ minAreaRatio.n >= 0 /\ minAreaRatio.n <= 100
       /\ req.sent.threshold = Undefined => threshold = Num(70)
       /\ req.sent.minAreaRatio = Undefined => minAreaRatio = Num(20)

\* the claim's reading of one response value: the booleans it holds (none, or one).
\* An object holds its boolean isPerson; a text holds the boolean isPerson of the
\* JSON object it is, or, when it is no JSON, of the JSON object that runs from its
\* first '{' to its last '}'
ClaimsBooleanIn(v) ==
  LET Held(o) == IF o.t = "object" /\ "isPerson" \in DOMAIN o.f
                    /\ o.f.isPerson.t = "boolean"
                 THEN {o.f.isPerson.b} ELSE {}
  IN IF v.t = "object" THEN Held(v)
     ELSE IF v.t = "string"
     THEN LET toks == TokensOf(v)
              first == {i \in 1..Len(toks) : toks[i].k = "{"}
              last == {i \in 1..Len(toks) : toks[i].k = "}"}
          IN IF JSONParse(toks).ok THEN Held(JSONParse(toks).v)
             ELSE IF first = {} \/ last = {} THEN {}
             ELSE LET from == CHOOSE i \in first : \A j \in first : i <= j
                      to == CHOOSE i \in last : \A j \in last : j <= i
                  IN IF from < to /\ JSONParse(SubSeq(toks, from, to)).ok
                     THEN Held(JSONParse(SubSeq(toks, from, to)).v)
                     ELSE {}
     ELSE {}

\* reply.result.response, when the reply has that level of nesting
NestedResponse(reply) ==
  IF Get(reply, "result").t = "object" THEN Get(Get(reply, "result"), "response")
  ELSE Undefined

\* the vision-language model has replied, and the reply is no error payload
LlamaReplied ==
  /\ req.route = "llama"
  /\ runCalls = 1
  /\ guarded.kind = "value"
  /\ ~isErrorResponse(guarded.v)

C15_LlamaReplyWithoutBooleanFails ==
  ( /\ LlamaReplied
    /\ \/ guarded.v.t # "object"
       \/ /\ ClaimsBooleanIn(Get(guarded.v, "response")) = {}
          /\ ClaimsBooleanIn(NestedResponse(guarded.v)) = {} ) =>
    /\ Len(response) = 1
    /\ response[1].status = 502
    /\ response[1] \in FailureResponses
    /\ CodeOf(response[1]) = "AI_RUN_RESPONSE_ERROR"
    /\ Get(Get(response[1].body, "error"), "raw") = guarded.v
    /\ run.out = Fulfilled(guarded.v)

\* the reply {"isPerson": "yes"} was answered 502 with the reply as raw
C15_Witness ==
  /\ LlamaReplied
  /\ guarded.v = Obj([response |-> Text(<<Tok("{"), Quoted("isPerson"), Tok(":"),
                                           Quoted("yes"), Tok("}")>>)])
  /\ Len(response) = 1
  /\ response[1].status = 502
  /\ Get(Get(response[1].body, "error"), "raw") = guarded.v

\* the request was answered by the API-key check with this status and code, and
\* went no further
RefusedWith(status, code) ==
  /\ ~req.authorized
  /\ ~req.handled
  /\ Len(response) = 1
  /\ response[1].status = status
  /\ response[1] \in FailureResponses
  /\ CodeOf(response[1]) = code
  /\ runCalls = 0
  /\ fetch.calls = 0

C17_NoHandlerBeforeKeyCheck ==
  (req # NoRequest /\ req.path \notin PUBLIC_PATHS) =>
    ((req.handled \/ fetch.calls > 0 \/ runCalls > 0) => req.authorized)

\* the trace id the claim derives from the request's headers
ClaimsTraceId(headers) ==
  IF headers.xRequestId \notin {Undefined, Str("")} THEN headers.xRequestId
  ELSE IF headers.xTraceId \notin {Undefined, Str("")} THEN headers.xTraceId
  ELSE IF headers.cfRay \notin {Undefined, Str("")} THEN headers.cfRay
  ELSE RandomUUID

\* C18: every error body sent for a request carries the trace id derived from that
\* request: the first non-empty of x-request-id, x-trace-id and cf-ray, else a fresh
\* one; this holds for the errors of runAiModel on the model-run endpoint whatever
\* options the body brings.
C18_ErrorBodyCarriesRequestTraceId ==
  \A r \in FailureResponses :
    Get(Get(r.body, "error"), "traceId") = ClaimsTraceId(req.headers)

\* C19: a request that reaches the person-detection or the model-run handler and
\* fails is answered exactly once, with a body {success: false, error: {code,
\* message, ...}} whose code is one of the six codes; a failure that is no
\* AiRunError (a body that cannot be read, a failing fetch) is answered
\* AI_RUN_EXCEPTION with status 500.
C19_FailuresAnsweredOnceAsAiRunError ==
  (req # NoRequest /\ req.route \in {"detr", "llama", "run"} /\ req.authorized) =>
    /\ Len(response) <= 1
    /\ pc = "done" => Len(response) = 1
    /\ \A r \in FailureResponses :
         /\ Get(Get(r.body, "error"), "code").t = "string"
         /\ Get(Get(r.body, "error"), "message").t = "string"
         /\ CodeOf(r) \in {"INVALID_INPUT", "UNAUTHORIZED", "FORBIDDEN", "AI_RUN_TIMEOUT",
                            "AI_RUN_EXCEPTION", "AI_RUN_RESPONSE_ERROR"}
         /\ r.status >= 400
         /\ CodeOf(r) = "AI_RUN_EXCEPTION" => r.status = 500
    /\ (\/ run.out.kind = "error"
        \/ fetch.st = "failed"
        \/ (image # NoImage /\ image.codec = "failed")) =>
         (pc = "done" /\ response[1] \in FailureResponses)
    /\ req.mode = "malformed" =>
         /\ response[1] \in FailureResponses
         /\ response[1].status = 500
         /\ CodeOf(response[1]) = "AI_RUN_EXCEPTION"

(***************************************************************************)
(* Timers, late settlements, log records, retries                         *)
(***************************************************************************)
\* C21: the timer of withTimeout is armed only while runAiModel waits for the guard,
\* the abort timer of fetchImageBuffer only while the fetch or the reading of the
\* body is under way; a request arms at most one of each, two in total, and none is
\* armed once its response has been produced.
C21_NoTimerOutlivesItsOperation ==
  /\ (timeoutId.st = "armed" => guarded = Pending /\ run.out = Pending /\ pc = "running")
  /\ (fetch.timer = "armed" => fetch.st \in {"pending", "reading"}
                                /\ pc \in {"fetching", "reading"})
  /\ timersArmed <= 1
  /\ fetch.calls <= 1
  /\ timersArmed + fetch.calls <= 2
  /\ (response # <<>> => timeoutId.st # "armed" /\ fetch.timer # "armed")

\* a request armed both timers: the image was fetched in time, the model call ran
\* into its deadline, and the response was sent with neither timer armed
C21_Witness ==
  /\ pc = "done"
  /\ Len(response) = 1
  /\ fetch.calls = 1
  /\ fetch.timer = "cleared"
  /\ timersArmed = 1
  /\ timeoutId.st = "fired"

\* C22: when the timer of withTimeout has run and the service call settles only
\* afterwards, the caller has already been given AI_RUN_TIMEOUT, and the late
\* settlement changes neither that outcome nor the guard, sends no response and
\* writes no log record.
C22_LateSettlementChangesNothing ==
  [][ (timeoutId.st = "fired" /\ promise = Pending /\ promise' # Pending) =>
        /\ run.out.kind = "error"
        /\ run.out.e.code = "AI_RUN_TIMEOUT"
        /\ Len(response) = 1
        /\ run' = run
        /\ guarded' = guarded
        /\ settlements' = settlements
        /\ timeoutId' = timeoutId
        /\ logs' = logs
        /\ response' = response
        /\ pc' = pc ]_vars

\* the request was answered 504 when the deadline ran out; the service call
\* rejected afterwards, and there is still one response and one log record
C22_Witness ==
  /\ timeoutId.st = "fired"
  /\ promise.kind = "error"
  /\ settledAt >= timeoutId.deadline
  /\ run.out.kind = "error"
  /\ run.out.e.code = "AI_RUN_TIMEOUT"
  /\ Len(response) = 1
  /\ response[1].status = 504
  /\ Len(logs) = 1

\* C23: a finished call of runAiModel has written exactly one log record: an
\* ai_run_success record when it returned a payload, an ai_run_error record with
\* the error's code when it failed.
C23_OneLogRecordPerOutcome ==
  (pc # "idle" /\ run.out # Pending) =>
    /\ Len(logs) = 1
    /\ (run.out.kind = "value" => logs[1].event = "ai_run_success")
    /\ (run.out.kind = "error" => /\ logs[1].event = "ai_run_error"
                                  /\ logs[1].errorCode = run.out.e.code)

\* C24: whatever timeoutMs the caller passes in options, runAiModel waits with a
\* timer armed for a positive finite deadline, which is the 60,000 ms default unless
\* options.timeoutMs is a positive finite number; hence every call settles in the
\* end, with a payload or with an AiRunError, even when the service call never does.
C24_RunAlwaysSettles ==
  /\ [](pc = "running" =>
          /\ timeoutId.st = "armed"
          /\ timersArmed = 1
          /\ timeoutId.ms = run.timeoutMs.n
          /\ run.timeoutMs.n > 0
          /\ (run.asked.t = "number" /\ run.asked.n > 0 => run.timeoutMs = run.asked)
          /\ (~(run.asked.t = "number" /\ run.asked.n > 0) =>
                run.timeoutMs = Num(DEFAULT_AI_TIMEOUT_MS)))
  /\ [](pc # "idle" =>
          <>(\/ run.out.kind = "value"
             \/ run.out.kind = "error" /\ run.out.e.cls = "AiRunError"))

\* the caller asked for a deadline of zero, the service call never settled, and
\* the default deadline ended the call
C24_Witness ==
  /\ pc = "done"
  /\ run.asked = Num(0)
  /\ run.timeoutMs = Num(DEFAULT_AI_TIMEOUT_MS)
  /\ promise = Pending
  /\ timeoutId.st = "fired"
  /\ run.out.kind = "error"
  /\ run.out.e.code = "AI_RUN_TIMEOUT"

\* C25: nothing is tried twice.  A call of runAiModel has called ai.run once, and a
\* request has fetched at most one image and handed at most one image to at most
\* one call of runAiModel, however the fetch and the model call ended.
C25_NoStepRetried ==
  /\ runCalls = (IF run = NoRun THEN 0 ELSE 1)
  /\ fetch.calls <= 1
  /\ Len(modelInput) <= 1
  /\ (req.route \in {"detr", "llama"} => runCalls = Len(modelInput))
  /\ (fetch.calls = 1 => req.mode = "json")

\* the image was fetched once and the model was called once; ai.run threw, and the
\* request was answered with that failure without a second attempt
C25_Witness ==
  /\ pc = "done"
  /\ fetch.calls = 1
  /\ fetch.st = "done"
  /\ runCalls = 1
  /\ run.thrown = PlainError
  /\ Len(response) = 1
  /\ response[1].status = 500

\* C26: a fetchImageBuffer that failed is reported as AI_RUN_TIMEOUT when its abort
\* timer ran, whether the response was still awaited or its body was being read;
\* the AiRunError of the status check and of the two size checks is reported as it
\* was raised; any other failure of the transport is reported as AI_RUN_EXCEPTION.
C26_FetchFailureCodes ==
  (fetch.st = "failed") =>
    /\ Len(response) = 1
    /\ IF fetch.timer = "fired"
       THEN /\ CodeOf(response[1]) = "AI_RUN_TIMEOUT"
            /\ MessageOfResponse(response[1]) = "Image fetch timed out"
       ELSE IF fetch.response.arrived /\ ~fetch.response.ok
       THEN response[1] = ErrorResponse(InvalidInput("Failed to fetch image: (status)",
                                                     502, req.traceId, NoCause))
       ELSE IF \/ DeclaresLength(MAX_IMAGE_BYTES + 1)
               \/ (image # NoImage /\ image.buffer.size > MAX_IMAGE_BYTES)
       THEN response[1] = ErrorResponse(InvalidInput("Image is too large", 400,
                                                     req.traceId, NoCause))
       ELSE /\ CodeOf(response[1]) = "AI_RUN_EXCEPTION"
            /\ MessageOfResponse(response[1]) = "Failed to fetch image"

\* the response headers had arrived and the body was being read when the abort
\* timer ran: the request was answered AI_RUN_TIMEOUT
C26_Witness ==
  /\ fetch.st = "failed"
  /\ fetch.timer = "fired"
  /\ fetch.response.arrived
  /\ now >= FETCH_TIMEOUT_MS
  /\ Len(response) = 1
  /\ CodeOf(response[1]) = "AI_RUN_TIMEOUT"

\* the claim's reading of a box: its width and height from the one naming
\* convention its keys follow, or from its four elements; <<>> for any other box
ClaimsBoxSides(box) ==
  LET Corners(l, t, r, b) ==
        IF \A v \in {l, t, r, b} : v.t = "number"
        THEN <<r.n - l.n, b.n - t.n>> ELSE <<>>
  IN IF box.t = "array"
     THEN IF Len(box.items) = 4
          THEN Corners(box.items[1], box.items[2], box.items[3], box.items[4])
          ELSE <<>>
     ELSE IF box.t # "object" THEN <<>>
     ELSE IF DOMAIN box.f = {"xmin", "ymin", "xmax", "ymax"}
     THEN Corners(box.f.xmin, box.f.ymin, box.f.xmax, box.f.ymax)
     ELSE IF DOMAIN box.f = {"x1", "y1", "x2", "y2"}
     THEN Corners(box.f.x1, box.f.y1, box.f.x2, box.f.y2)
     ELSE IF DOMAIN box.f = {"left", "top", "right", "bottom"}
     THEN Corners(box.f.left, box.f.top, box.f.right, box.f.bottom)
     ELSE IF DOMAIN box.f = {"x0", "y0", "x1", "y1"}
     THEN Corners(box.f.x0, box.f.y0, box.f.x1, box.f.y1)
     ELSE IF DOMAIN box.f = {"w", "h"}
     THEN Corners(Num(0), Num(0), box.f.w, box.f.h)
     ELSE IF DOMAIN box.f = {"width", "height"}
     THEN Corners(Num(0), Num(0), box.f.width, box.f.height)
     ELSE <<>>

\* C27: for a box in any of the corner conventions, in width/height form or given
\* as four numbers, extractAreaRatio is the area of width = right - left and
\* height = bottom - top (null when a side is not in (0, 1]), and a lone person
\* detection over the threshold with such an area is accepted exactly when that
\* area reaches minAreaRatio.
C27_AreaFromBoxEdges ==
  (fnOut.done /\ fnIn.result.t = "array") =>
    \A i \in 1..Len(fnIn.result.items) :
      LET d == fnIn.result.items[i]
          sides == IF d.t = "object" /\ "box" \in DOMAIN d.f
                   THEN ClaimsBoxSides(d.f.box) ELSE <<>>
      IN sides # <<>> =>
           /\ extractAreaRatio(d) = normalizedArea(sides[1], sides[2])
           /\ ( /\ Len(fnIn.result.items) = 1
                /\ d.f.label = Str("person")
                /\ d.f.score.t = "number" /\ d.f.score.n >= fnIn.threshold
                /\ normalizedArea(sides[1], sides[2]) # Null )
              => fnOut.v = (sides[1] * sides[2] >= fnIn.minAreaRatio * 100)

\* the gatewayLogId the records of the request with frame f carry when nothing but
\* that request's own model call decides it: the id of its own call when the call
\* went through the gateway and returned in time, and none otherwise
ClaimsOwnLogId(f) ==
  IF f.promise.kind = "value" /\ f.timeoutId.st # "fired" /\ Truthy(f.run.gateway)
  THEN [t |-> "string", logOf |-> f.run.traceId]
  ELSE Undefined

\* C28: with two requests interleaved, the frame of the request that is not running
\* (its response, its timers, its log records) is changed by no step of the other,
\* and every log record of a request is what the request's own inputs and its own
\* model call make it.
C28_RequestsIndependent ==
  /\ [][parked' # parked => (parked' = Frame /\ Frame' = parked)]_vars
  /\ [](\A f \in {Frame, parked} :
          /\ Len(f.response) <= 1
          /\ \A i \in 1..Len(f.logs) :
               /\ f.logs[i].traceId = f.run.traceId
               /\ f.logs[i].gatewayLogId = ClaimsOwnLogId(f))

====
